---- MODULE Spec2Model ----
(***************************************************************************)
(* A model of generate_newsletter.py: the extraction-and-validation        *)
(* pipeline that turns press-release articles into enriched deal records.  *)
(*                                                                         *)
(* Python strings are TLA+ strings; TLC evaluates Len, SubSeq, Head, Tail  *)
(* and \o on them, and a character is a string of length 1.  Python's      *)
(* 0-based str.find is Find below, 1-based, with 0 for "not found".        *)
(*                                                                         *)
(* The strings of the model are over the characters a module can hold in   *)
(* a string: U+0001 to U+00FF without U+0060 and, above them, the          *)
(* characters of the Basic Multilingual Plane whose code point ends in a   *)
(* byte of 80 to FF.  The character tables below (blanks, decimal digits,  *)
(* letter case, cased and case-ignorable characters) list every such       *)
(* character that Python puts in the class; a character that cannot be     *)
(* written (U+2003, U+FF15, U+017F, ...) is in no string of the model, and *)
(* neither is a letter that str.lower() turns into such a character.       *)
(*                                                                         *)
(* The regular expressions of the source are written out as matchers that  *)
(* follow Python's re semantics (leftmost start, alternatives in order,    *)
(* greedy quantifiers).                                                    *)
(***************************************************************************)
EXTENDS Integers, Sequences, FiniteSets, TLC

VARIABLES
    source,     \* the batch source: what load_articles returns
    articles,   \* main's `articles` (the batch after the TEST_MODE cut)
    idx,        \* main's loop index (1-based) of the article being enriched
    pc,         \* where main (or the function under study) stands
    sumReply,   \* outcome of the summary generation call of the current article
    metaReply,  \* outcome of the metadata generation call of the current article
    context,    \* get_context_text's result for the current article
    enriched,   \* main's `enriched` list
    requests,   \* the text-generation requests posted so far
    ret,        \* return value of the function under study
    limit,          \* the max_chars argument simple_summary is called with
    emails,         \* send_newsletters_to_all's recipient list
    api_key,        \* RESEND_API_KEY
    attempts,       \* the emails.send calls made so far, in order
    success_count,  \* send_newsletters_to_all's success_count
    failed_count    \* send_newsletters_to_all's failed_count

\* simple_summary's default max_chars
DefaultMaxChars == 400

deliveryVars == <<emails, api_key, attempts, success_count, failed_count>>

vars ==
    <<source, articles, idx, pc, sumReply, metaReply, context, enriched, requests, ret,
      limit, emails, api_key, attempts, success_count, failed_count>>

\* nothing is being delivered and simple_summary is called with its default
NoDelivery ==
    /\ limit = DefaultMaxChars
    /\ emails = <<>>
    /\ api_key = ""
    /\ attempts = <<>>
    /\ success_count = 0
    /\ failed_count = 0

(***************************************************************************)
(* Characters and strings                                                  *)
(***************************************************************************)

Char(s, i) == SubSeq(s, i, i)

\* The characters c with c.isspace(): tab, line feed, vertical tab, form feed,
\* carriage return, U+001C to U+001F, space, U+0085, U+00A0 and U+1680.
WhitespaceChars ==
    "\t\n\f\r   "

\* str.split(), str.strip() and the regex class \s
Whitespace == {Char(WhitespaceChars, i) : i \in 1..Len(WhitespaceChars)}

\* the regex class [0-9]
Digits == {"0", "1", "2", "3", "4", "5", "6", "7", "8", "9"}

\* The decimal digits of every script (category Nd): DecimalDigitChars[v + 1]
\* holds the digits whose value is v.
DecimalDigitChars ==
    <<"0۰߀০૦௦೦෦໐႐០᧐᪀᪐᮰꣐꧐꧰꯰",
      "1۱߁১૧௧೧෧໑႑១᧑᪁᪑᮱꣑꧑꧱꯱",
      "2۲߂২૨௨೨෨໒႒២᧒᪂᪒᮲꣒꧒꧲꯲",
      "3۳߃৩૩௩೩෩໓႓៣᧓᪃᪓᮳꣓꧓꧳꯳",
      "4۴߄৪૪௪೪෪໔႔៤᧔᪄᪔᮴꣔꧔꧴꯴",
      "5۵߅৫૫௫೫෫໕႕៥᧕᪅᪕᮵꣕꧕꧵꯵",
      "6۶߆৬૬௬೬෬໖႖៦᧖᪆᪖᮶꣖꧖꧶꯶",
      "7۷߇৭૭௭೭෭໗႗៧᧗᪇᪗᮷꣗꧗꧷꯷",
      "8۸߈৮૮௮೮෮໘႘៨᧘᪈᪘᮸꣘꧘꧸꯸",
      "9۹߉৯૯௯೯෯໙႙៩᧙᪉᪙᮹꣙꧙꧹꯹">>

\* the digits of value v
DecimalDigitsOf(v) ==
    {Char(DecimalDigitChars[v + 1], i) : i \in 1..Len(DecimalDigitChars[v + 1])}

\* the regex class \d of a str pattern
DecimalDigits == UNION {DecimalDigitsOf(v) : v \in 0..9}

UpperLetters == "ABCDEFGHIJKLMNOPQRSTUVWXYZ"

LowerLetters == "abcdefghijklmnopqrstuvwxyz"

UpperSet == {Char(UpperLetters, i) : i \in 1..Len(UpperLetters)}

LowerSet == {Char(LowerLetters, i) : i \in 1..Len(LowerLetters)}

\* The letters that str.lower() changes to one character the model's strings
\* can hold, and at the same position of CasedLowerLetters what it changes
\* them to.  U+03A3 is listed with the form it has where it does not end a
\* word.
CasedUpperLetters ==
    "ABCDEFGHIJKLMNOPQRSTUVWXYZÀÁÂÃÄÅÆÇÈÉÊËÌÍÎÏÐÑÒÓÔÕ" \o
    "ÖØÙÚÛÜÝÞƂƄƇƋƎƑƘƠƢƤƦƧƩƬƮƯƱƲƳƵƷƸƼǄǅǇǈǊǋǍǏǑǓǕǗǙǛǞǠǢ" \o
    "ǤǦǨǪǬǮǱǲǴǶǷǸǺǼǾΆΈΉΊΌΎΏΑΒΓΔΕΖΗΘΙΚΛΜΝΞΟΠΡΣΤΥΦΧΨΩΪΫ" \o
    "ϏϘϚϜϞϠϢϤϦϨϪϬϮϴϷϹϺҀҊҌҎҐҒҔҖҘҚҜҞҠҢҤҦҨҪҬҮҰҲҴҶҸҺҼҾӀӁӃ" \o
    "ӅӇӉӋӍӐӒӔӖӘӚӜӞӠӢӤӦӨӪӬӮӰӲӴӶӸӺӼӾᎰᎱᎲᎳᎴᎵᎶᎷᎸᎹᎺᎻᎼᎽᎾᎿᏀᏁᏂ" \o
    "ᏃᏄᏅᏆᏇᏈᏉᏊᏋᏌᏍᏎᏏᏐᏑᏒᏓᏔᏕᏖᏗᏘᏙᏚᏛᏜᏝᏞᏟᏠᏡᏢᏣᏤᏥᏦᏧᏨᏩᏪᏫᏬᏭᏮᏯᏰᏱᏲ" \o
    "ᏳᏴᏵᲐᲑᲒᲓᲔᲕᲖᲗᲘᲙᲚᲛᲜᲝᲞᲟᲠᲡᲢᲣᲤᲥᲦᲧᲨᲩᲪᲫᲬᲭᲮᲯᲰᲱᲲᲳᲴᲵᲶᲷᲸᲹᲺᲽᲾ" \o
    "ᲿẀẂẄẆẈẊẌẎẐẒẔẞẠẢẤẦẨẪẬẮẰẲẴẶẸẺẼẾỀỂỄỆỈỊỌỎỐỒỔỖỘỚỜỞỠỢỤ" \o
    "ỦỨỪỬỮỰỲỴỶỸỺỼỾᾈᾉᾊᾋᾌᾍᾎᾏᾘᾙᾚᾛᾜᾝᾞᾟᾨᾩᾪᾫᾬᾭᾮᾯᾸᾹᾼῌῘῙῨῩῬῼↃ" \o
    "ⒶⒷⒸⒹⒺⒻⒼⒽⒾⒿⓀⓁⓂⓃⓄⓅⓆⓇⓈⓉⓊⓋⓌⓍⓎⓏⲀⲂⲄⲆⲈⲊⲌⲎⲐⲒⲔⲖⲘⲚⲜⲞⲠⲢⲤⲦⲨⲪ" \o
    "ⲬⲮⲰⲲⲴⲶⲸⲺⲼⲾⳀⳂⳄⳆⳈⳊⳌⳎⳐⳒⳔⳖⳘⳚⳜⳞⳠⳢⳫⳭⳲꚀꚂꚄꚆꚈꚊꚌꚎꚐꚒꚔꚖꚘꚚꞀꞂꞄ" \o
    "ꞆꞋꞐꞒꞖꞘꞚꞜꞞꞠꞢꞤꞦꞨꞰꞱꞲꞴꞶꞸꞺꞼꞾꟀꟂꟄꟅꟆꟇꟉꟐꟖꟘꟵ"

CasedLowerLetters ==
    "abcdefghijklmnopqrstuvwxyzàáâãäåæçèéêëìíîïðñòóôõ" \o
    "öøùúûüýþƃƅƈƌǝƒƙơƣƥʀƨʃƭʈưʊʋƴƶʒƹƽǆǆǉǉǌǌǎǐǒǔǖǘǚǜǟǡǣ" \o
    "ǥǧǩǫǭǯǳǳǵƕƿǹǻǽǿάέήίόύώαβγδεζηθικλμνξοπρστυφχψωϊϋ" \o
    "ϗϙϛϝϟϡϣϥϧϩϫϭϯθϸϲϻҁҋҍҏґғҕҗҙқҝҟҡңҥҧҩҫҭүұҳҵҷҹһҽҿӏӂӄ" \o
    "ӆӈӊӌӎӑӓӕӗәӛӝӟӡӣӥӧөӫӭӯӱӳӵӷӹӻӽӿꮀꮁꮂꮃꮄꮅꮆꮇꮈꮉꮊꮋꮌꮍꮎꮏꮐꮑꮒ" \o
    "ꮓꮔꮕꮖꮗꮘꮙꮚꮛꮜꮝꮞꮟꮠꮡꮢꮣꮤꮥꮦꮧꮨꮩꮪꮫꮬꮭꮮꮯꮰꮱꮲꮳꮴꮵꮶꮷꮸꮹꮺꮻꮼꮽꮾꮿᏸᏹᏺ" \o
    "ᏻᏼᏽაბგდევზთიკლმნოპჟრსტუფქღყშჩცძწჭხჯჰჱჲჳჴჵჶჷჸჹჺჽჾ" \o
    "ჿẁẃẅẇẉẋẍẏẑẓẕßạảấầẩẫậắằẳẵặẹẻẽếềểễệỉịọỏốồổỗộớờởỡợụ" \o
    "ủứừửữựỳỵỷỹỻỽỿᾀᾁᾂᾃᾄᾅᾆᾇᾐᾑᾒᾓᾔᾕᾖᾗᾠᾡᾢᾣᾤᾥᾦᾧᾰᾱᾳῃῐῑῠῡῥῳↄ" \o
    "ⓐⓑⓒⓓⓔⓕⓖⓗⓘⓙⓚⓛⓜⓝⓞⓟⓠⓡⓢⓣⓤⓥⓦⓧⓨⓩⲁⲃⲅⲇⲉⲋⲍⲏⲑⲓⲕⲗⲙⲛⲝⲟⲡⲣⲥⲧⲩⲫ" \o
    "ⲭⲯⲱⲳⲵⲷⲹⲻⲽⲿⳁⳃⳅⳇⳉⳋⳍⳏⳑⳓⳕⳗⳙⳛⳝⳟⳡⳣⳬⳮⳳꚁꚃꚅꚇꚉꚋꚍꚏꚑꚓꚕꚗꚙꚛꞁꞃꞅ" \o
    "ꞇꞌꞑꞓꞗꞙꞛꞝꞟꞡꞣꞥꞧꞩʞʇʝꞵꞷꞹꞻꞽꞿꟁꟃꞔʂᶎꟈꟊꟑꟗꟙꟶ"

\* The letters that str.lower() changes to a character no string of the model
\* can hold (U+0181 to U+0253, U+10A0 to U+2D00, ...).
UnwritableLowerLetters ==
    "ƁƆƉƊƏƐƓƔƖƗƜƝƟϽϾϿႠႡႢႣႤႥႦႧႨႩႪႫႬႭႮႯႰႱႲႳႴႵႶႷႸႹႺႻႼႽႾႿ" \o
    "ჀჁჂჃჄჅჇჍᎠᎡᎢᎣᎤᎥᎦᎧᎨᎩᎪᎫᎬᎭᎮᎯᾺΆῈΈῊΉῚΊῪΎῸΌῺΏꞍꞪꞫꞬꞭꞮꞳ"

CasedUpperSet == {Char(CasedUpperLetters, i) : i \in 1..Len(CasedUpperLetters)}

UnwritableLowerSet == {Char(UnwritableLowerLetters, i) : i \in 1..Len(UnwritableLowerLetters)}

LowerOf == [c \in CasedUpperSet |->
              Char(CasedLowerLetters,
                   CHOOSE i \in 1..Len(CasedUpperLetters) : Char(CasedUpperLetters, i) = c)]

\* c.lower() of one character; it has no value on a letter of
\* UnwritableLowerLetters, which is in no string of the model
LowerChar(c) ==
    CASE c \in CasedUpperSet -> LowerOf[c]
      [] c \notin CasedUpperSet /\ c \notin UnwritableLowerSet -> c

\* The characters str.lower() passes over when it looks for the letters next
\* to a capital sigma (the case-ignorable ones: apostrophe, full stop, colon,
\* accents, combining marks, modifier letters, ...).
CaseIgnorableChars ==
    "'.:^¨­¯´·¸ʰʱʲʳʴʵʶʷʸʹʺʻʼʽʾʿˀˁ˂˃˄˅ˆˇˈˉˊˋˌˍˎˏːˑ˒˓˔˕" \o
    "˖˗˘˙˚˛˜˝˞˟ˠˡˢˣˤ˥˦˧˨˩˪˫ˬ˭ˮ˯˰˱˲˳˴˵˶˷˸˹˺˻˼˽˾˿΄΅·҃҄҅" \o
    "҆҇҈҉ְֱֲֳִֵֶַָֹֺֻּ֑֖֛֢֣֤֥֦֧֪֚֭֮֒֓֔֕֗֘֙֜֝֞֟֠֡֨֩֫֬֯" \o
    "ׇֽֿׁׂׅׄ״ۖۗۘۙۚۛۜ۝ۣ۟۠ۡۢۤۥۦ۪ۭۧۨ۫۬ަާިީުޫެޭޮޯް߫߬߭߮߯߰߱" \o
    "߲߳ߴߵߺ߽࢈࢐࢑࢙࢚࢛࢘࢜࢝࢞࢟ࣉ࣏࣐࣑࣒࣓࣊࣋࣌࣍࣎ࣔࣕࣖࣗࣘࣙࣚࣛࣜࣝࣞࣟ࣠࣡࣢ࣣࣦࣤࣥࣧ" \o
    "ࣰࣱࣲࣩ࣭࣮࣯ࣶࣹࣺࣨ࣪࣫࣬ࣳࣴࣵࣷࣸࣻࣼࣽࣾࣿঁ়ুূৃৄ্ৢৣ৾ઁં઼ુૂૃૄૅેૈ્ૢૣૺ" \o
    "ૻૼ૽૾૿ஂீ்ಁ಼ಿೆೌ್ೢೣඁ්ිීුූັິີຶື຺ຸູົຼໆ່້໊໋໌ໍ྄ཱྀྀྂྃ྆྇ྍྎ" \o
    "ྏྐྑྒྒྷྔྕྖྗྙྚྛྜྜྷྞྟྠྡྡྷྣྤྥྦྦྷྨྩྪྫྫྷྭྮྯྰྱྲླྴྵྶྷྸྐྵྺྻྼ࿆ႂႅ" \o
    "ႆႍႝჼ឴឵ិីឹឺុូួំ៉៊់៌៍៎៏័៑្៓ៗ៝ᢅᢆᢩᪧ᪵᪶᪷᪸᪹᪺᪽᪰᪱᪲᪳᪴᪻᪼᪾ᪿᫀ" \o
    "᫃᫄᫊᫁᫂᫅᫆᫇᫈᫉᫋ᫌᫍᫎᮀᮁᮢᮣᮤᮥᮨᮩ᮫ᮬᮭ᯦ᯨᯩᯭᯯᯰᯱ᳔᳕᳖᳗᳘᳙᳜᳝᳞᳟᳐᳑᳒᳚᳛᳠" \o
    "᳢᳣᳤᳥᳦᳧᳨᳭᳴᳸᳹ᶛᶜᶝᶞᶟᶠᶡᶢᶣᶤᶥᶦᶧᶨᶩᶪᶫᶬᶭᶮᶯᶰᶱᶲᶳᶴᶵᶶᶷᶸᶹᶺᶻᶼᶽᶾᶿ" \o
    "᷐᷎᷂᷊᷏᷀᷁᷃᷄᷅᷆᷇᷈᷉᷋᷌᷑᷒ᷓᷔᷕᷖᷗᷘᷙᷚᷛᷜᷝᷞᷟᷠᷡᷢᷣᷤᷥᷦᷧᷨᷩᷪᷫᷬᷭᷮᷯ᷍" \o
    "᷺᷹᷽᷿᷷᷸ᷰᷱᷲᷳᷴ᷵᷻᷾᷶᷼᾽᾿῀῁῍῎῏῝῞῟῭΅`´῾ₐₑₒₓₔₕₖₗₘₙₚₛₜ⃒⃓⃐⃑" \o
    "⃘⃙⃚⃔⃕⃖⃗⃛⃜⃝⃞⃟⃠⃡⃢⃣⃤⃥⃦⃪⃫⃨⃬⃭⃮⃯⃧⃩⃰⳯⳰⳱ⷠⷡⷢⷣⷤⷥⷦⷧⷨⷩⷪⷫⷬⷭⷮⷯ" \o
    "゙゚ⷰⷱⷲⷳⷴⷵⷶⷷⷸⷹⷺⷻⷼⷽⷾⷿ゛゜ゝゞーヽヾꓸꓹꓺꓻꓼꓽꚜꚝꚞꚟ꛰꛱ꞈ꞉꞊ꟲꟳꟴꟸꟹ꣄ꣅ꣠" \o
    "꣡꣢꣣꣤꣥꣦꣧꣨꣩꣪꣫꣬꣭꣮꣯꣰꣱ꣿꦀꦁꦂ꦳ꦶꦷꦸꦹꦼꦽꧏꧥꧦꪴꪰꪲꪳꪷꪸꪾ꪿꫁ꫝꫬꫭꫳꫴ꫶ꯥꯨ" \o
    "꯭﮲﮳﮴﮵﮶﮷﮸﮹﮺﮻﮼﮽﮾﮿﯀﯁﯂﻿ﾞﾟ￣￹￺￻"

\* The cased characters that are not case-ignorable: the letters with an
\* upper-case or lower-case form.
CasedChars ==
    "ABCDEFGHIJKLMNOPQRSTUVWXYZabcdefghijklmnopqrstuv" \o
    "wxyzªµºÀÁÂÃÄÅÆÇÈÉÊËÌÍÎÏÐÑÒÓÔÕÖØÙÚÛÜÝÞßàáâãäåæçèé" \o
    "êëìíîïðñòóôõöøùúûüýþÿƀƁƂƃƄƅƆƇƈƉƊƋƌƍƎƏƐƑƒƓƔƕƖƗƘƙƚ" \o
    "ƛƜƝƞƟƠơƢƣƤƥƦƧƨƩƪƫƬƭƮƯưƱƲƳƴƵƶƷƸƹƺƼƽƾƿǄǅǆǇǈǉǊǋǌǍǎǏ" \o
    "ǐǑǒǓǔǕǖǗǘǙǚǛǜǝǞǟǠǡǢǣǤǥǦǧǨǩǪǫǬǭǮǯǰǱǲǳǴǵǶǷǸǹǺǻǼǽǾǿ" \o
    "ʀʁʂʃʄʅʆʇʈʉʊʋʌʍʎʏʐʑʒʓʕʖʗʘʙʚʛʜʝʞʟʠʡʢʣʤʥʦʧʨʩʪʫʬʭʮʯΆ" \o
    "ΈΉΊΌΎΏΐΑΒΓΔΕΖΗΘΙΚΛΜΝΞΟΠΡΣΤΥΦΧΨΩΪΫάέήίΰαβγδεζηθικ" \o
    "λμνξοπρςστυφχψωϊϋόύώϏϐϑϒϓϔϕϖϗϘϙϚϛϜϝϞϟϠϡϢϣϤϥϦϧϨϩϪ" \o
    "ϫϬϭϮϯϰϱϲϳϴϵϷϸϹϺϻϼϽϾϿҀҁҊҋҌҍҎҏҐґҒғҔҕҖҗҘҙҚқҜҝҞҟҠҡҢң" \o
    "ҤҥҦҧҨҩҪҫҬҭҮүҰұҲҳҴҵҶҷҸҹҺһҼҽҾҿӀӁӂӃӄӅӆӇӈӉӊӋӌӍӎӏӐӑӒӓ" \o
    "ӔӕӖӗӘәӚӛӜӝӞӟӠӡӢӣӤӥӦӧӨөӪӫӬӭӮӯӰӱӲӳӴӵӶӷӸӹӺӻӼӽӾӿրցւփ" \o
    "քօֆևֈႠႡႢႣႤႥႦႧႨႩႪႫႬႭႮႯႰႱႲႳႴႵႶႷႸႹႺႻႼႽႾႿჀჁჂჃჄჅჇჍაბგ" \o
    "დევზთიკლმნოპჟრსტუფქღყშჩცძწჭხჯჰჱჲჳჴჵჶჷჸჹჺჽჾჿᎠᎡᎢᎣᎤ" \o
    "ᎥᎦᎧᎨᎩᎪᎫᎬᎭᎮᎯᎰᎱᎲᎳᎴᎵᎶᎷᎸᎹᎺᎻᎼᎽᎾᎿᏀᏁᏂᏃᏄᏅᏆᏇᏈᏉᏊᏋᏌᏍᏎᏏᏐᏑᏒᏓᏔ" \o
    "ᏕᏖᏗᏘᏙᏚᏛᏜᏝᏞᏟᏠᏡᏢᏣᏤᏥᏦᏧᏨᏩᏪᏫᏬᏭᏮᏯᏰᏱᏲᏳᏴᏵᏸᏹᏺᏻᏼᏽᲀᲁᲂᲃᲄᲅᲆᲇᲈ" \o
    "ᲐᲑᲒᲓᲔᲕᲖᲗᲘᲙᲚᲛᲜᲝᲞᲟᲠᲡᲢᲣᲤᲥᲦᲧᲨᲩᲪᲫᲬᲭᲮᲯᲰᲱᲲᲳᲴᲵᲶᲷᲸᲹᲺᲽᲾᲿᶀᶁ" \o
    "ᶂᶃᶄᶅᶆᶇᶈᶉᶊᶋᶌᶍᶎᶏᶐᶑᶒᶓᶔᶕᶖᶗᶘᶙᶚẀẁẂẃẄẅẆẇẈẉẊẋẌẍẎẏẐẑẒẓẔẕẖ" \o
    "ẗẘẙẚẛẜẝẞẟẠạẢảẤấẦầẨẩẪẫẬậẮắẰằẲẳẴẵẶặẸẹẺẻẼẽẾếỀềỂểỄễỆ" \o
    "ệỈỉỊịỌọỎỏỐốỒồỔổỖỗỘộỚớỜờỞởỠỡỢợỤụỦủỨứỪừỬửỮữỰựỲỳỴỵỶ" \o
    "ỷỸỹỺỻỼỽỾỿᾀᾁᾂᾃᾄᾅᾆᾇᾈᾉᾊᾋᾌᾍᾎᾏᾐᾑᾒᾓᾔᾕᾖᾗᾘᾙᾚᾛᾜᾝᾞᾟᾠᾡᾢᾣᾤᾥᾦ" \o
    "ᾧᾨᾩᾪᾫᾬᾭᾮᾯᾰᾱᾲᾳᾴᾶᾷᾸᾹᾺΆᾼιῂῃῄῆῇῈΈῊΉῌῐῑῒΐῖῗῘῙῚΊῠῡῢΰῤῥ" \o
    "ῦῧῨῩῪΎῬῲῳῴῶῷῸΌῺΏῼↃↄⒶⒷⒸⒹⒺⒻⒼⒽⒾⒿⓀⓁⓂⓃⓄⓅⓆⓇⓈⓉⓊⓋⓌⓍⓎⓏⓐⓑⓒ" \o
    "ⓓⓔⓕⓖⓗⓘⓙⓚⓛⓜⓝⓞⓟⓠⓡⓢⓣⓤⓥⓦⓧⓨⓩⲀⲁⲂⲃⲄⲅⲆⲇⲈⲉⲊⲋⲌⲍⲎⲏⲐⲑⲒⲓⲔⲕⲖⲗⲘ" \o
    "ⲙⲚⲛⲜⲝⲞⲟⲠⲡⲢⲣⲤⲥⲦⲧⲨⲩⲪⲫⲬⲭⲮⲯⲰⲱⲲⲳⲴⲵⲶⲷⲸⲹⲺⲻⲼⲽⲾⲿⳀⳁⳂⳃⳄⳅⳆⳇⳈ" \o
    "ⳉⳊⳋⳌⳍⳎⳏⳐⳑⳒⳓⳔⳕⳖⳗⳘⳙⳚⳛⳜⳝⳞⳟⳠⳡⳢⳣⳤⳫⳬⳭⳮⳲⳳꚀꚁꚂꚃꚄꚅꚆꚇꚈꚉꚊꚋꚌꚍ" \o
    "ꚎꚏꚐꚑꚒꚓꚔꚕꚖꚗꚘꚙꚚꚛꞀꞁꞂꞃꞄꞅꞆꞇꞋꞌꞍꞎꞐꞑꞒꞓꞔꞕꞖꞗꞘꞙꞚꞛꞜꞝꞞꞟꞠꞡꞢꞣꞤꞥ" \o
    "ꞦꞧꞨꞩꞪꞫꞬꞭꞮꞯꞰꞱꞲꞳꞴꞵꞶꞷꞸꞹꞺꞻꞼꞽꞾꞿꟀꟁꟂꟃꟄꟅꟆꟇꟈꟉꟊꟐꟑꟓꟕꟖꟗꟘꟙꟵꟶꟺ" \o
    "ꮀꮁꮂꮃꮄꮅꮆꮇꮈꮉꮊꮋꮌꮍꮎꮏꮐꮑꮒꮓꮔꮕꮖꮗꮘꮙꮚꮛꮜꮝꮞꮟꮠꮡꮢꮣꮤꮥꮦꮧꮨꮩꮪꮫꮬꮭꮮꮯ" \o
    "ꮰꮱꮲꮳꮴꮵꮶꮷꮸꮹꮺꮻꮼꮽꮾꮿ"

CaseIgnorable == {Char(CaseIgnorableChars, i) : i \in 1..Len(CaseIgnorableChars)}

Cased == {Char(CasedChars, i) : i \in 1..Len(CasedChars)}

CapitalSigma == "Σ"

\* the nearest position before i (step -1) or after i (step 1) that holds a
\* character str.lower() does not pass over; 0 or Len(s) + 1 when there is none
RECURSIVE SkipIgnorable(_, _, _)
SkipIgnorable(s, j, step) ==
    IF j < 1 \/ j > Len(s) THEN j
    ELSE IF Char(s, j) \in CaseIgnorable THEN SkipIgnorable(s, j + step, step)
    ELSE j

\* the capital sigma at position i ends a word: a cased letter stands before
\* it and none after it
FinalSigma(s, i) ==
    LET b == SkipIgnorable(s, i - 1, -1)
        a == SkipIgnorable(s, i + 1, 1)
    IN  /\ b >= 1
        /\ Char(s, b) \in Cased
        /\ (a > Len(s) \/ Char(s, a) \notin Cased)

\* the character str.lower() puts at position i
LowerAt(s, i) ==
    IF Char(s, i) = CapitalSigma
    THEN (IF FinalSigma(s, i) THEN "ς" ELSE "σ")
    ELSE LowerChar(Char(s, i))

\* s[lo..hi] of s.lower(), by halves
RECURSIVE LowerRange(_, _, _)
LowerRange(s, lo, hi) ==
    IF lo > hi THEN ""
    ELSE IF lo = hi THEN LowerAt(s, lo)
    ELSE LET h == (lo + hi) \div 2
         IN  LowerRange(s, lo, h) \o LowerRange(s, h + 1, hi)

\* str.lower()
ToLower(s) == LowerRange(s, 1, Len(s))

Min(S) == CHOOSE x \in S : \A y \in S : x <= y

Max(S) == CHOOSE x \in S : \A y \in S : x >= y

StartsWithAt(s, i, sub) ==
    /\ i >= 1
    /\ i + Len(sub) - 1 <= Len(s)
    /\ SubSeq(s, i, i + Len(sub) - 1) = sub

\* str.find(sub, start): the least position >= from where sub occurs, 0 if none
Find(s, sub, from) ==
    LET hits == {i \in from..(Len(s) - Len(sub) + 1) : StartsWithAt(s, i, sub)}
    IN  IF hits = {} THEN 0 ELSE Min(hits)

\* str.rfind(sub): the greatest position where sub occurs, 0 if none
RFind(s, sub) ==
    LET hits == {i \in 1..(Len(s) - Len(sub) + 1) : StartsWithAt(s, i, sub)}
    IN  IF hits = {} THEN 0 ELSE Max(hits)

\* `sub in s`
Contains(s, sub) == Find(s, sub, 1) # 0

\* how many characters from position i on lie in class
RunLen(s, i, class) ==
    IF i > Len(s) THEN 0
    ELSE Min({j \in i..(Len(s) + 1) : j = Len(s) + 1 \/ Char(s, j) \notin class}) - i

\* the maximal runs of characters outside seps, in order (empty runs dropped)
Tokens(s, seps) ==
    LET starts == {i \in 1..Len(s) :
                     /\ Char(s, i) \notin seps
                     /\ (i = 1 \/ Char(s, i - 1) \in seps)}
        start(k) == CHOOSE i \in starts : Cardinality({j \in starts : j < i}) = k - 1
        stop(i)  == Min({j \in i..(Len(s) + 1) : j = Len(s) + 1 \/ Char(s, j) \in seps})
    IN  [k \in 1..Cardinality(starts) |-> SubSeq(s, start(k), stop(start(k)) - 1)]

\* sep.join(parts), by halves
RECURSIVE Join(_, _)
Join(parts, sep) ==
    IF Len(parts) = 0 THEN ""
    ELSE IF Len(parts) = 1 THEN parts[1]
    ELSE LET h == Len(parts) \div 2
         IN  Join(SubSeq(parts, 1, h), sep) \o sep \o Join(SubSeq(parts, h + 1, Len(parts)), sep)

\* " ".join(s.split())
CollapseWhitespace(s) == Join(Tokens(s, Whitespace), " ")

LStrip(s, chars) == SubSeq(s, 1 + RunLen(s, 1, chars), Len(s))

RStrip(s, chars) ==
    SubSeq(s, 1, Max({0} \cup {j \in 1..Len(s) : Char(s, j) \notin chars}))

\* str.strip(chars); str.strip() is Strip(s, Whitespace)
Strip(s, chars) == RStrip(LStrip(s, chars), chars)

\* str.replace(old, new), old non-empty: the occurrences left to right
RECURSIVE ReplaceAll(_, _, _)
ReplaceAll(s, old, new) ==
    LET i == Find(s, old, 1)
    IN  IF i = 0 THEN s
        ELSE SubSeq(s, 1, i - 1) \o new \o ReplaceAll(SubSeq(s, i + Len(old), Len(s)), old, new)

\* every string over alphabet of length at most n
RECURSIVE StringsUpTo(_, _)
StringsUpTo(alphabet, n) ==
    IF n = 0 THEN {""}
    ELSE LET shorter == StringsUpTo(alphabet, n - 1)
         IN  shorter \cup {s \o c : s \in shorter, c \in alphabet}

(***************************************************************************)
(* extract_deal_value_from_text                                            *)
(***************************************************************************)

\* The pattern's non-ASCII characters.  In the source file the two non-ASCII
\* alternatives are the character sequences U+201A U+00C7 U+00A8 and
\* U+00AC U+00A3.
U00C7 == "Ç"

U00A8 == "¨"

U00AC == "¬"

U00A3 == "£"

\* The currency alternatives in the order the pattern lists them; Rs\.? is
\* greedy, so "Rs." is tried before "Rs".  The alternative U+201A U+00C7
\* U+00A8 (between EUR and GBP) begins with a character that no string of
\* the model holds, so it matches at no position and is not listed.
CurrencyMarkers ==
    <<"USD", "US$", "$", "EUR", "GBP", U00AC \o U00A3, "C$", "CAD", "INR", "Rs.", "Rs">>

\* The magnitude alternatives in pattern order.
MagnitudeSuffixes == <<"million", "billion", "bn", "mn", "m", "M", "B">>

\* re.IGNORECASE: the length of the first alternative that matches at i, 0 if none
FirstAltLenAt(text, i, alts) ==
    LET hits == {k \in 1..Len(alts) :
                   /\ i >= 1
                   /\ i + Len(alts[k]) - 1 <= Len(text)
                   /\ ToLower(SubSeq(text, i, i + Len(alts[k]) - 1)) = ToLower(alts[k])}
    IN  IF hits = {} THEN 0 ELSE Len(alts[Min(hits)])

\* The pattern's match from position i on, piece by piece; each piece gets
\* the position its predecessor reached and the whole gives the end (last
\* position) of the match, 0 if there is none.

\* (?:million|billion|bn|mn|m|M|B)?
MatchMagnitude(text, j) == j + FirstAltLenAt(text, j, MagnitudeSuffixes) - 1

\* \s* before the magnitude
MatchSecondGap(text, j) == MatchMagnitude(text, j + RunLen(text, j, Whitespace))

\* (?:\.\d+)?
MatchFraction(text, j) ==
    IF j <= Len(text) /\ Char(text, j) = "." /\ RunLen(text, j + 1, DecimalDigits) > 0
    THEN MatchSecondGap(text, j + 1 + RunLen(text, j + 1, DecimalDigits))
    ELSE MatchSecondGap(text, j)

\* [0-9][0-9,]*
MatchNumber(text, j) ==
    IF j <= Len(text) /\ Char(text, j) \in Digits
    THEN MatchFraction(text, j + 1 + RunLen(text, j + 1, Digits \cup {","}))
    ELSE 0

\* \s* after the currency marker
MatchFirstGap(text, j) == MatchNumber(text, j + RunLen(text, j, Whitespace))

\* (?:USD|US\$|...|Rs\.?)
DealValueMatchEnd(text, i) ==
    IF FirstAltLenAt(text, i, CurrencyMarkers) = 0 THEN 0
    ELSE MatchFirstGap(text, i + FirstAltLenAt(text, i, CurrencyMarkers))

\* re.search: the leftmost position where the pattern matches, 0 if none
DealValueSearch(text) ==
    LET hits == {i \in 1..Len(text) : DealValueMatchEnd(text, i) # 0}
    IN  IF hits = {} THEN 0 ELSE Min(hits)

\* lines 259-264 on m.group(1)
CleanDealValue(group) ==
    Strip(CollapseWhitespace(
            ReplaceAll(ReplaceAll(Strip(group, Whitespace), "US$", "USD "), "$", "USD ")),
          Whitespace)

\* lines 256-265 given where the search matched
DealValueAt(text, start) ==
    IF start = 0 THEN "NA"
    ELSE CleanDealValue(SubSeq(text, start, DealValueMatchEnd(text, start)))

extract_deal_value_from_text(content) ==
    IF content = "" THEN "NA"
    ELSE DealValueAt(CollapseWhitespace(content), DealValueSearch(CollapseWhitespace(content)))

(***************************************************************************)
(* Articles                                                                *)
(***************************************************************************)

\* JSON values as the code tells them apart: a string; a list; null; a value
\* of another type (a number, a boolean, an object) that is truthy (5, true,
\* {"a": 1}) or falsy (0, false, {}).  Absent is a key the object does not
\* hold.
JStr(s) == [t |-> "str", s |-> s]

JList(items) == [t |-> "list", items |-> items]

JNull == [t |-> "null"]

JOther(truthy) == [t |-> "other", truthy |-> truthy]

Absent == [t |-> "absent"]

\* bool(v)
Truthy(v) ==
    CASE v.t = "str"    -> v.s # ""
      [] v.t = "list"   -> v.items # <<>>
      [] v.t = "other"  -> v.truthy
      [] v.t = "null"   -> FALSE
      [] v.t = "absent" -> FALSE

\* the list of the strings of a tuple
JStrings(strings) == JList([i \in 1..Len(strings) |-> JStr(strings[i])])

\* An article of the batch source: a JSON object, here a record with the keys
\* the object holds, each with a JSON value.  Article builds the object with
\* a string title, a string content, a string url and a list of strings as
\* timestamp, the members of the Article of the specification's section 3.
Article(title, content, url, timestamp) ==
    [title |-> JStr(title), content |-> JStr(content), url |-> JStr(url),
     timestamp |-> JStrings(timestamp)]

\* the object without one of its keys
Without(article, key) == [k \in DOMAIN article \ {key} |-> article[k]]

\* the object with the key set to the value
With(article, key, value) ==
    [k \in DOMAIN article \cup {key} |-> IF k = key THEN value ELSE article[k]]

\* article.get(key, default)
Get(article, key, default) == IF key \in DOMAIN article THEN article[key] ELSE default

\* v or ""
OrEmpty(v) == IF Truthy(v) THEN v ELSE JStr("")

\* article.get("content", "") or "": a string, or a truthy value of another
\* type
ContentValue(article) == OrEmpty(Get(article, "content", JStr("")))

\* article.get("title", "") or ""
TitleValue(article) == OrEmpty(Get(article, "title", JStr("")))

\* the object is an Article of the specification's section 3: its title,
\* content and url are strings and its timestamp is a list of strings, where
\* it holds them
IsArticle(article) ==
    /\ \A k \in {"title", "content", "url"} \cap DOMAIN article : article[k].t = "str"
    /\ "timestamp" \in DOMAIN article =>
          /\ article.timestamp.t = "list"
          /\ \A n \in 1..Len(article.timestamp.items) : article.timestamp.items[n].t = "str"

\* the content is text: a string, or "" for a missing or falsy content
HasText(article) == ContentValue(article).t = "str"

\* the text of the content, for an article that has one
ContentOf(article) == ContentValue(article).s

\* the text of the title, for a title that is a string, missing or falsy
TitleOf(article) == TitleValue(article).s

NoReply == [kind |-> "none"]

(***************************************************************************)
(* Specification SpecValue: extract_deal_value_from_text on bounded inputs *)
(***************************************************************************)

MaxValueLen == 4

ValueAlphabet == {"U", "S", "s", "$", "C", "5", " "}

ValuePrefixes == {"", "for "}

ValueMarkers ==
    {"USD", "usd", "US$", "us$", "$", "EUR", "eur", "GBP", "C$", "c$", "CAD", "INR",
     "Rs.", "Rs", "rs.", U00AC \o U00A3, U00A3, ""}

ValueGaps == {"", " "}

ValueNumbers == {"5", "2.5", "1,000"}

ValueTails == {"", " million", "bn", " M.", " deal"}

ValueContents ==
    StringsUpTo(ValueAlphabet, MaxValueLen)
    \cup {p \o m \o g \o n \o t :
            p \in ValuePrefixes, m \in ValueMarkers, g \in ValueGaps,
            n \in ValueNumbers, t \in ValueTails}

InitValue ==
    /\ source \in {<<Article("", c, "", <<>>)>> : c \in ValueContents}
    /\ articles = source
    /\ idx = 1
    /\ pc = "value"
    /\ sumReply = NoReply
    /\ metaReply = NoReply
    /\ context = ""
    /\ enriched = <<>>
    /\ requests = <<>>
    /\ ret = ""
    /\ NoDelivery

ApplyValue ==
    /\ pc = "value"
    /\ ret' = extract_deal_value_from_text(ContentOf(articles[idx]))
    /\ pc' = "done"
    /\ UNCHANGED <<source, articles, idx, sumReply, metaReply, context, enriched, requests>>
    /\ UNCHANGED <<limit, emails, api_key, attempts, success_count, failed_count>>

NextValue == ApplyValue

SpecValue == InitValue /\ [][NextValue]_vars

\* The currency tokens the specification lists (US$ and $ are rendered as
\* "USD ").
KnownCurrencyTokens == {"USD", "EUR", "€", "GBP", "£", "C$", "CAD", "INR", "Rs."}

\* s begins with one of the listed currency tokens, then (after optional
\* blanks) a digit
BeginsWithCurrencyAndNumber(s) ==
    \E tok \in KnownCurrencyTokens :
        /\ StartsWithAt(s, 1, tok)
        /\ LET j == Len(tok) + 1 + RunLen(s, Len(tok) + 1, {" "})
           IN  j <= Len(s) /\ Char(s, j) \in Digits

\* C4: for every content, extract_deal_value_from_text returns "NA" or a
\* string that begins with a listed currency token followed by a numeric
\* literal, whatever the marker and the letter case of the matched text.
C4_DealValueKnownCurrency ==
    (pc = "done") => (ret = "NA" \/ BeginsWithCurrencyAndNumber(ret))

(***************************************************************************)
(* Date handling                                                           *)
(***************************************************************************)

\* MONTH_MAP as (key, value) pairs
MONTH_MAP ==
    {<<"Jan.", "Jan">>, <<"January", "Jan">>, <<"Feb.", "Feb">>, <<"February", "Feb">>,
     <<"Mar.", "Mar">>, <<"March", "Mar">>, <<"Apr.", "Apr">>, <<"April", "Apr">>,
     <<"May", "May">>, <<"Jun.", "Jun">>, <<"June", "Jun">>, <<"Jul.", "Jul">>,
     <<"July", "Jul">>, <<"Aug.", "Aug">>, <<"August", "Aug">>, <<"Sep.", "Sep">>,
     <<"Sept.", "Sep">>, <<"September", "Sep">>, <<"Oct.", "Oct">>, <<"October", "Oct">>,
     <<"Nov.", "Nov">>, <<"November", "Nov">>, <<"Dec.", "Dec">>, <<"December", "Dec">>}

\* MONTH_MAP.get(month_str, month_str)
normalize_month(month_str) ==
    IF \E p \in MONTH_MAP : p[1] = month_str
    THEN (CHOOSE p \in MONTH_MAP : p[1] = month_str)[2]
    ELSE month_str

\* int(c) for one decimal digit
DigitValue(c) == CHOOSE v \in 0..9 : c \in DecimalDigitsOf(v)

\* int(s) for a string of decimal digits
RECURSIVE ParseInt(_)
ParseInt(s) ==
    IF s = "" THEN 0
    ELSE 10 * ParseInt(SubSeq(s, 1, Len(s) - 1)) + DigitValue(Char(s, Len(s)))

\* The pattern ([A-Z][a-z]{2,9}\.?)[ ]+(\d{1,2}),[ ]*(\d{4}) tried at position
\* i: the ways it can match, as <<letters, dot, day digits>> with letters the
\* count taken by [a-z]{2,9}, dot 1 when \.? takes a period, day digits the
\* count taken by \d{1,2}.
DateWaysAt(s, i) ==
    IF ~(i <= Len(s) /\ Char(s, i) \in UpperSet) THEN {}
    ELSE
    {w \in (2..9) \X {0, 1} \X {1, 2} :
        LET k   == w[1]
            d   == w[2]
            dl  == w[3]
            j1  == i + 1 + k              \* after the letters
            j2  == j1 + d                 \* after \.?
            sp  == RunLen(s, j2, {" "})   \* [ ]+
            j3  == j2 + sp                \* the day
            j4  == j3 + dl                \* the comma
            j5  == j4 + 1 + RunLen(s, j4 + 1, {" "})   \* the year
        IN  /\ RunLen(s, i + 1, LowerSet) >= k
            /\ (d = 1 => (j1 <= Len(s) /\ Char(s, j1) = "."))
            /\ sp >= 1
            /\ RunLen(s, j3, DecimalDigits) >= dl
            /\ j4 <= Len(s) /\ Char(s, j4) = ","
            /\ RunLen(s, j5, DecimalDigits) >= 4}

\* Greedy order: more letters first, then the period, then the longer day.
DateBestWay(ways) ==
    CHOOSE w \in ways :
        \A v \in ways :
            \/ w[1] > v[1]
            \/ (w[1] = v[1] /\ w[2] > v[2])
            \/ (w[1] = v[1] /\ w[2] = v[2] /\ w[3] >= v[3])

\* lines 69-72: the f-string over the groups of the match at position i taken
\* the way w
DateFormat(s, i, w) ==
    LET j2   == i + 1 + w[1] + w[2]
        j3   == j2 + RunLen(s, j2, {" "})
        j4   == j3 + w[3]
        j5   == j4 + 1 + RunLen(s, j4 + 1, {" "})
        month_raw == SubSeq(s, i, j2 - 1)
        day       == SubSeq(s, j3, j4 - 1)
        year      == SubSeq(s, j5, j5 + 3)
    IN  normalize_month(month_raw) \o " " \o ToString(ParseInt(day)) \o ", " \o year

\* re.search(...) followed by the f-string: the formatted date of the leftmost
\* match, "" if the pattern matches nowhere
DateSearchFormat(s) ==
    IF \A i \in 1..Len(s) : DateWaysAt(s, i) = {} THEN ""
    ELSE \* the leftmost position where the pattern matches
         LET i == CHOOSE h \in 1..Len(s) :
                     /\ DateWaysAt(s, h) # {}
                     /\ \A g \in 1..(h - 1) : DateWaysAt(s, g) = {}
         IN  DateFormat(s, i, DateBestWay(DateWaysAt(s, i)))

\* lines 64-68: timestamp_list[0] raises on a truthy number, boolean or
\* object, and re.search raises on a first element that is no string
TimestampRaises(timestamp_list) ==
    /\ Truthy(timestamp_list)
    /\ \/ timestamp_list.t = "other"
       \/ timestamp_list.t = "list" /\ timestamp_list.items[1].t # "str"

\* timestamp_list[0] is the first element of a list and the first character
\* of a string
extract_date_from_timestamp_list(timestamp_list) ==
    IF ~Truthy(timestamp_list) THEN ""
    ELSE IF timestamp_list.t = "str" THEN DateSearchFormat(Char(timestamp_list.s, 1))
    ELSE DateSearchFormat(timestamp_list.items[1].s)

extract_date_from_content(content) == DateSearchFormat(CollapseWhitespace(content))

\* lines 86-89: the timestamp raises, or no date is found in it and
\* content.split() (line 76) raises on a content that is no string
PrettyDateRaises(article) ==
    \/ TimestampRaises(Get(article, "timestamp", JList(<<>>)))
    \/ /\ extract_date_from_timestamp_list(Get(article, "timestamp", JList(<<>>))) = ""
       /\ ~HasText(article)

get_pretty_date(article) ==
    LET ts_date == extract_date_from_timestamp_list(Get(article, "timestamp", JList(<<>>)))
    IN  IF ts_date # "" THEN ts_date ELSE extract_date_from_content(ContentOf(article))

(***************************************************************************)
(* Specification SpecDate: get_pretty_date on bounded inputs               *)
(***************************************************************************)

DatePrefixes == {"", "NEW YORK, "}

DateMonths ==
    {"Nov.", "November", "Nov", "Sept.", "Sept", "May", "Monday", "nov.", "Abcdefghijk"}

DateDays == {"3", "26", "03", "123"}

DateCommas == {", ", ",", " "}

DateYears == {"2025", "25"}

DateTexts ==
    {p \o m \o " " \o d \o c \o y :
        p \in DatePrefixes, m \in DateMonths, d \in DateDays, c \in DateCommas, y \in DateYears}

\* timestamps that are no list of strings, and one whose first element is
\* none
OddTimestamps ==
    {JNull, JStr("Nov. 26, 2025"), JOther(TRUE), JOther(FALSE),
     JList(<<JOther(TRUE), JStr("Nov. 26, 2025")>>)}

\* contents that are no string
OddContents == {JNull, JList(<<JStr("Nov. 26, 2025")>>), JOther(TRUE)}

\* The date mention sits in the first timestamp, or only in the content; the
\* last articles have a timestamp or a content of another type, or lack one.
DateArticles ==
    {Article("", c, "", <<d>>) : d \in DateTexts, c \in {"", "Closed on May 5, 2021."}}
    \cup {Article("", "CITY,\n" \o d \o " /PRNewswire/ -- Acme", "", ts) :
            d \in DateTexts, ts \in {<<>>, <<"today">>}}
    \cup {With(Article("", "Closed on May 5, 2021.", "", <<>>), "timestamp", ts) : ts \in OddTimestamps}
    \cup {With(Article("", "", "", ts), "content", c) :
            c \in OddContents, ts \in {<<>>, <<"Nov. 26, 2025">>}}
    \cup {Without(Article("", "Closed on May 5, 2021.", "", <<>>), "timestamp"),
          Without(Article("", "", "", <<"May 5, 2021">>), "content")}

InitDate ==
    /\ source \in {<<a>> : a \in DateArticles}
    /\ articles = source
    /\ idx = 1
    /\ pc = "date"
    /\ sumReply = NoReply
    /\ metaReply = NoReply
    /\ context = ""
    /\ enriched = <<>>
    /\ requests = <<>>
    /\ ret = ""
    /\ NoDelivery

ApplyDate ==
    /\ pc = "date"
    /\ IF PrettyDateRaises(articles[idx])
       THEN pc' = "raised" /\ ret' = ret
       ELSE pc' = "done" /\ ret' = get_pretty_date(articles[idx])
    /\ UNCHANGED <<source, articles, idx, sumReply, metaReply, context, enriched, requests>>
    /\ UNCHANGED <<limit, emails, api_key, attempts, success_count, failed_count>>

NextDate == ApplyDate

SpecDate == InitDate /\ [][NextDate]_vars

CanonicalMonths ==
    {"Jan", "Feb", "Mar", "Apr", "May", "Jun", "Jul", "Aug", "Sep", "Oct", "Nov", "Dec"}

AllDigits(s) == \A i \in 1..Len(s) : Char(s, i) \in Digits

\* s is "{Mon} {day}, {year}": a canonical month abbreviation, a day of one
\* or two digits without leading zero, a year of four digits
IsPrettyDate(s) ==
    \E mon \in CanonicalMonths, dl \in 1..2 :
        /\ Len(s) = 3 + 1 + dl + 2 + 4
        /\ SubSeq(s, 1, 3) = mon
        /\ Char(s, 4) = " "
        /\ AllDigits(SubSeq(s, 5, 4 + dl))
        /\ (dl = 2 => Char(s, 5) # "0")
        /\ SubSeq(s, 5 + dl, 6 + dl) = ", "
        /\ AllDigits(SubSeq(s, 7 + dl, 10 + dl))

\* C8: for every timestamp list and content, get_pretty_date returns "" or
\* "{Mon} {day}, {year}" with Mon one of the twelve canonical abbreviations,
\* day an integer without leading zero and year four digits.
C8_PrettyDateCanonical ==
    (pc = "done") => (ret = "" \/ IsPrettyDate(ret))

(***************************************************************************)
(* summary_matches_title                                                   *)
(***************************************************************************)

\* the characters of t.strip(" ,.&()/-")
TitleStripChars == {" ", ",", ".", "&", "(", ")", "/", "-"}

\* the tokens kept: stripped title words of length >= 4
TitleTokens(title) ==
    LET words == Tokens(title, Whitespace)
    IN  SelectSeq([k \in 1..Len(words) |-> Strip(words[k], TitleStripChars)],
                  LAMBDA w : Len(w) >= 4)

\* as summary_matches_title, comparing without lower-casing
summary_matches_title_CaseSensitive(summary, title) ==
    /\ summary # ""
    /\ title # ""
    /\ \E k \in 1..Len(TitleTokens(title)) : Contains(summary, TitleTokens(title)[k])

summary_matches_title(summary, title) ==
    IF summary = "" \/ title = "" THEN FALSE
    ELSE LET summary_l == ToLower(summary)
             tokens    == TitleTokens(title)
         IN  IF tokens = <<>> THEN FALSE
             ELSE \E k \in 1..Len(tokens) : Contains(summary_l, ToLower(tokens[k]))

(***************************************************************************)
(* Specification SpecTitle: summary_matches_title on bounded inputs        *)
(***************************************************************************)

\* A reply of the text-generation service: the HTTP body is a JSON object
\* whose "response" member is v.
JsonReply(v) == [kind |-> "ok", response |-> v]

TextReply(text) == JsonReply(JStr(text))

\* The call did not produce a JSON object: requests.post raised (transport
\* error, timeout), raise_for_status raised (HTTP error), or resp.json()
\* raised or gave no object (body is not a JSON object).
FailureKinds == {"transport", "timeout", "http", "badbody"}

FailedReply(kind) == [kind |-> kind]

MaxTitleLen == 5

TitleAlphabet == {"a", ":", "-", " "}

TitleTitles ==
    StringsUpTo(TitleAlphabet, MaxTitleLen)
    \cup {"Acme Acquires Foo", "Acme: deal", "(Acme) & Co.", "A B C", "Foo-Bar Inc",
          "the deal", "ACME/", "Acme, Inc. buys Foo!", "  ", "New\tFund\nCloses"}

TitleSummaries ==
    {"", "aaaa", "a:aa b", "-a-aa", "Acme Corp acquired Foo Inc.", "ACME: a Deal",
     "foo-bar expands", "The fund closes."}

InitTitle ==
    /\ source \in {<<Article(t, "", "", <<>>)>> : t \in TitleTitles}
    /\ articles = source
    /\ idx = 1
    /\ pc = "title"
    /\ sumReply \in {TextReply(s) : s \in TitleSummaries}
    /\ metaReply = NoReply
    /\ context = ""
    /\ enriched = <<>>
    /\ requests = <<>>
    /\ ret = ""
    /\ NoDelivery

ApplyTitle ==
    /\ pc = "title"
    /\ ret' = summary_matches_title(sumReply.response.s, articles[idx].title.s)
    /\ pc' = "done"
    /\ UNCHANGED <<source, articles, idx, sumReply, metaReply, context, enriched, requests>>
    /\ UNCHANGED <<limit, emails, api_key, attempts, success_count, failed_count>>

NextTitle == ApplyTitle

SpecTitle == InitTitle /\ [][NextTitle]_vars

\* string.punctuation
Punctuation ==
    {"!", "\"", "#", "$", "%", "&", "'", "(", ")", "*", "+", ",", "-", ".", "/", ":",
     ";", "<", "=", ">", "?", "@", "[", "\\", "]", "^", "_", "{", "|", "}", "~"}

\* Some maximal run of s free of the characters of seps (positions a..b),
\* with the characters of surround taken off both its ends (leaving c..d),
\* has at least minLen characters and occurs, lower-cased, in text_l.
WordAttested(text_l, s, seps, surround, minLen) ==
    \E a \in 1..Len(s) : \E b \in a..Len(s) :
        /\ a = 1 \/ Char(s, a - 1) \in seps
        /\ b = Len(s) \/ Char(s, b + 1) \in seps
        /\ \A i \in a..b : Char(s, i) \notin seps
        /\ \E c \in a..b : \E d \in c..b :
              /\ d - c + 1 >= minLen
              /\ Char(s, c) \notin surround
              /\ Char(s, d) \notin surround
              /\ \A i \in a..(c - 1) : Char(s, i) \in surround
              /\ \A i \in (d + 1)..b : Char(s, i) \in surround
              /\ Contains(text_l, ToLower(SubSeq(s, c, d)))

\* Some whitespace-separated word of the title, with the characters of
\* surround taken off both its ends, has at least 4 characters and occurs in
\* the summary, letter case ignored.
TitleWordAttested(summary, title, surround) ==
    WordAttested(ToLower(summary), title, Whitespace, surround, 4)

\* C6 as stated: summary_matches_title is true exactly when some title word,
\* its surrounding punctuation stripped, has length >= 4 and occurs in the
\* summary case-insensitively.
C6_MatchIffPunctuationStrippedWord ==
    (pc = "done") =>
        (ret <=> TitleWordAttested(sumReply.response.s, articles[idx].title.s, Punctuation))

\* C6 amended: summary_matches_title is true exactly when some title word,
\* with only the characters , . & ( ) / - stripped from its ends, has length
\* >= 4 and occurs in the summary case-insensitively; an empty summary or
\* title gives false.
C6_MatchIffStrippedWord ==
    (pc = "done") =>
        /\ ret <=> TitleWordAttested(sumReply.response.s, articles[idx].title.s, TitleStripChars)
        /\ (sumReply.response.s = "" \/ articles[idx].title.s = "") => (ret = FALSE)

\* A title word of 4 letters wrapped in strippable characters matched a
\* summary that spells it in another letter case.
C6_Witness ==
    /\ pc = "done"
    /\ ret = TRUE
    /\ articles[idx].title.s = "(Acme) & Co."
    /\ sumReply.response.s = "ACME: a Deal"

(***************************************************************************)
(* Fallback summary                                                        *)
(***************************************************************************)

\* lines 95-101 on the collapsed text
StripMarker(text, marker) ==
    IF Find(text, marker, 1) # 0
    THEN IF Find(text, "--", Find(text, marker, 1)) # 0
         THEN Strip(SubSeq(text, Find(text, "--", Find(text, marker, 1)) + 2, Len(text)),
                    Whitespace)
         ELSE Strip(SubSeq(text, Find(text, marker, 1) + Len(marker), Len(text)), Whitespace)
    ELSE text

strip_prnewswire_boilerplate(content) ==
    StripMarker(CollapseWhitespace(content), "/PRNewswire")

SentenceEnds == {".", "!", "?"}

\* where (?<=[.!?])\s+ matches in core: a whitespace run right after . ! or ?
SentenceBreaks(core) ==
    {j \in 2..Len(core) : Char(core, j) \in Whitespace /\ Char(core, j - 1) \in SentenceEnds}

\* " ".join(re.split(...)[:2]) given the breaks
JoinFirstTwo(core, breaks) ==
    IF breaks = {} THEN core
    ELSE LET p1     == Min(breaks)
             start2 == p1 + RunLen(core, p1, Whitespace)
             later  == {j \in breaks : j > p1}
             end2   == IF later = {} THEN Len(core) ELSE Min(later) - 1
         IN  SubSeq(core, 1, p1 - 1) \o " " \o SubSeq(core, start2, end2)

\* the slice s[:n]; a negative n counts from the end
Prefix(s, n) ==
    IF n >= 0 THEN SubSeq(s, 1, Min({n, Len(s)}))
    ELSE SubSeq(s, 1, Max({Len(s) + n, 0}))

\* lines 113-118: short = summary[:max_chars], cut at its last blank
Truncate(summary, max_chars) ==
    IF Len(summary) > max_chars
    THEN (IF RFind(Prefix(summary, max_chars), " ") >= 2
          THEN SubSeq(summary, 1, RFind(Prefix(summary, max_chars), " ") - 1)
          ELSE Prefix(summary, max_chars)) \o "..."
    ELSE summary

SummaryOfCore(core, max_chars) ==
    IF core = "" THEN ""
    ELSE Truncate(Strip(JoinFirstTwo(core, SentenceBreaks(core)), Whitespace), max_chars)

simple_summary(content, max_chars) ==
    SummaryOfCore(strip_prnewswire_boilerplate(content), max_chars)

(***************************************************************************)
(* Generative summary and the summary selector                             *)
(***************************************************************************)

\* (resp.json().get("response") or "").strip() inside the try of lines
\* 172-181: "" on any exception, also the AttributeError of .strip() on a
\* truthy value that is no string
ResponseText(reply) ==
    IF reply.kind # "ok" THEN ""
    ELSE IF ~Truthy(reply.response) THEN ""
    ELSE IF reply.response.t = "str" THEN Strip(reply.response.s, Whitespace)
    ELSE ""

\* line 133: content[:MAX_CHARS_FOR_AI] raises on a truthy content that is
\* neither a string nor a list
SummariseRaises(content) == Truthy(content) /\ content.t \notin {"str", "list"}

\* content is the JSON value get_context_text passes (a string or a list
\* here); date_str only goes into the prompt
ai_summarise_with_ollama(content, date_str, reply) ==
    IF ~Truthy(content) THEN "" ELSE ResponseText(reply)

\* as SelectContext, without the title check
SelectContext_NoTitleCheck(content, title, ai_line) ==
    IF content # "" /\ ai_line # ""
    THEN [text |-> ai_line, from |-> "ai"]
    ELSE [text |-> simple_summary(content, DefaultMaxChars), from |-> "fallback"]

\* the selector's choice, given ai_line; `from` records which branch returned
SelectContext(content, title, ai_line) ==
    IF content # "" /\ ai_line # "" /\ summary_matches_title(ai_line, title)
    THEN [text |-> ai_line, from |-> "ai"]
    ELSE [text |-> simple_summary(content, DefaultMaxChars), from |-> "fallback"]

\* get_context_text raises: in get_pretty_date (line 217), in the slice of
\* line 133, in title.split() (line 197) when a line came back and the title
\* is a truthy value that is no string, and in content.split() (line 93)
\* when the fallback is taken on a content that is no string
ContextRaises(article, reply) ==
    \/ PrettyDateRaises(article)
    \/ SummariseRaises(ContentValue(article))
    \/ /\ ai_summarise_with_ollama(ContentValue(article), "", reply) # ""
       /\ TitleValue(article).t # "str"
    \/ /\ ~HasText(article)
       /\ ~summary_matches_title(ai_summarise_with_ollama(ContentValue(article), "", reply),
                                 TitleOf(article))

\* what get_context_text returns when it does not raise; on a content that
\* is no string only the generative line can be returned
get_context_text(article, reply) ==
    IF HasText(article)
    THEN SelectContext(ContentOf(article), TitleOf(article),
                       ai_summarise_with_ollama(ContentValue(article),
                                                get_pretty_date(article), reply))
    ELSE [text |-> ai_summarise_with_ollama(ContentValue(article), get_pretty_date(article), reply),
          from |-> "ai"]

(***************************************************************************)
(* Metadata proposal, validation and the advisor choice                    *)
(***************************************************************************)

OrgKeys == {"investor_or_pe", "buyer", "seller", "advisor_firm"}

NameKeys == {"buyer_lead_name", "investor_lead_name", "seller_lead_name"}

RoleKeys == {"buyer_lead_role", "investor_lead_role", "seller_lead_role"}

MetaKeys == OrgKeys \cup NameKeys \cup RoleKeys

\* the object {}: data.get(key, "NA") finds no key
EmptyData == [k \in MetaKeys |-> Absent]

\* A reply whose response text is raw; parsed is what json.loads gives on the
\* {...} span of raw: an object (its members for the ten keys) or an error.
ParsedReply(raw, data) ==
    [kind |-> "ok", response |-> JStr(raw), parsed |-> [ok |-> TRUE, data |-> data]]

UnparsedReply(raw) ==
    [kind |-> "ok", response |-> JStr(raw), parsed |-> [ok |-> FALSE]]

\* re.search(r"\{.*\}", raw, re.DOTALL): from the first "{" to the last "}"
\* after it; "" when there is none
JsonSpan(raw) ==
    IF Find(raw, "{", 1) # 0 /\ RFind(raw, "}") > Find(raw, "{", 1)
    THEN SubSeq(raw, Find(raw, "{", 1), RFind(raw, "}"))
    ELSE ""

\* lines 340-353: `data`, {} on any exception
ProposalOf(reply) ==
    IF JsonSpan(ResponseText(reply)) = "" THEN EmptyData
    ELSE IF ~reply.parsed.ok THEN EmptyData
    ELSE reply.parsed.data

\* clean(val) calls val.strip() on a truthy value that is no string
CleanRaises(val) == Truthy(val) /\ val.t # "str"

\* clean(data.get(key, "NA"))
clean(val) ==
    IF val.t = "absent" THEN "NA"
    ELSE IF ~Truthy(val) THEN "NA"
    ELSE IF Strip(val.s, Whitespace) = "" THEN "NA"
    ELSE Strip(val.s, Whitespace)

\* [p.strip() for p in re.split(r"&|,|/| and ", name) if p.strip()]
OrgParts(name) ==
    LET pieces == Tokens(ReplaceAll(name, " and ", "&"), {"&", ",", "/"})
    IN  SelectSeq([k \in 1..Len(pieces) |-> Strip(pieces[k], Whitespace)],
                  LAMBDA q : q # "")

AnyIn(tokens, content_norm) ==
    \E k \in 1..Len(tokens) : Contains(content_norm, ToLower(tokens[k]))

validate_org(name, content_norm) ==
    IF name = "NA" THEN "NA"
    ELSE IF AnyIn(OrgParts(name), content_norm) THEN name
    ELSE "NA"

validate_person(name, content_norm) ==
    IF name = "NA" THEN "NA"
    ELSE IF AnyIn(SelectSeq(Tokens(name, Whitespace), LAMBDA q : Len(q) > 2), content_norm)
         THEN name
    ELSE "NA"

RoleSeparators == Whitespace \cup {"/", "&", ",", "-"}

\* as validate_role, keeping every proposed role
validate_role_Unchecked(role, content_norm) == role

validate_role(role, content_norm) ==
    IF role = "NA" THEN "NA"
    ELSE IF AnyIn(SelectSeq(Tokens(role, RoleSeparators), LAMBDA q : Len(q) > 2), content_norm)
         THEN role
    ELSE "NA"

\* as choose_deal_advisor, with buyer ranked above advisor_firm
choose_deal_advisor_BuyerFirst(investor_or_pe, advisor_firm, buyer, seller) ==
    IF investor_or_pe # "NA" THEN investor_or_pe
    ELSE IF buyer # "NA" THEN buyer
    ELSE IF advisor_firm # "NA" THEN advisor_firm
    ELSE IF seller # "NA" THEN seller
    ELSE "NA"

\* lines 416-426
choose_deal_advisor(investor_or_pe, advisor_firm, buyer, seller) ==
    IF investor_or_pe # "NA" THEN investor_or_pe
    ELSE IF advisor_firm # "NA" THEN advisor_firm
    ELSE IF buyer # "NA" THEN buyer
    ELSE IF seller # "NA" THEN seller
    ELSE "NA"

\* lines 361-440 given deal_value, content_norm and data
ValidatedMetadata(deal_value, content_norm, data) ==
    [deal_value         |-> deal_value,
     deal_advisor       |-> choose_deal_advisor(
                                validate_org(clean(data.investor_or_pe), content_norm),
                                validate_org(clean(data.advisor_firm), content_norm),
                                validate_org(clean(data.buyer), content_norm),
                                validate_org(clean(data.seller), content_norm)),
     investor_or_pe     |-> validate_org(clean(data.investor_or_pe), content_norm),
     buyer              |-> validate_org(clean(data.buyer), content_norm),
     seller             |-> validate_org(clean(data.seller), content_norm),
     buyer_lead_name    |-> validate_person(clean(data.buyer_lead_name), content_norm),
     buyer_lead_role    |-> validate_role(clean(data.buyer_lead_role), content_norm),
     investor_lead_name |-> validate_person(clean(data.investor_lead_name), content_norm),
     investor_lead_role |-> validate_role(clean(data.investor_lead_role), content_norm),
     seller_lead_name   |-> validate_person(clean(data.seller_lead_name), content_norm),
     seller_lead_role   |-> validate_role(clean(data.seller_lead_role), content_norm)]

\* the dict of lines 281-293
AllNA ==
    [deal_value |-> "NA", deal_advisor |-> "NA", investor_or_pe |-> "NA", buyer |-> "NA",
     seller |-> "NA", buyer_lead_name |-> "NA", buyer_lead_role |-> "NA",
     investor_lead_name |-> "NA", investor_lead_role |-> "NA",
     seller_lead_name |-> "NA", seller_lead_role |-> "NA"]

\* ai_extract_deal_metadata raises: one of the ten clean(...) calls does
MetadataRaises(content, reply) ==
    /\ content # ""
    /\ \E k \in MetaKeys : CleanRaises(ProposalOf(reply)[k])

\* as ai_extract_deal_metadata, with the deal value extracted inside the try,
\* after the proposal was parsed
ai_extract_deal_metadata_ValueInTry(content, reply) ==
    IF content = "" THEN AllNA
    ELSE ValidatedMetadata(
             IF reply.kind = "ok" /\ JsonSpan(ResponseText(reply)) # "" /\ reply.parsed.ok
             THEN extract_deal_value_from_text(content) ELSE "NA",
             ToLower(CollapseWhitespace(content)), ProposalOf(reply))

\* the dict ai_extract_deal_metadata returns when it does not raise
ai_extract_deal_metadata(content, reply) ==
    IF content = "" THEN AllNA
    ELSE ValidatedMetadata(extract_deal_value_from_text(content),
                           ToLower(CollapseWhitespace(content)), ProposalOf(reply))

(***************************************************************************)
(* Specification SpecMeta: ai_extract_deal_metadata on bounded inputs      *)
(***************************************************************************)

\* the end-to-end content of the specification's section 8
AcmeContent ==
    "(PRNewswire) -- Acme Corp acquired Foo Inc for USD 240 million. " \o
    "Jane Doe, CEO of Acme, said the deal expands reach."

\* a release in the wire format the marker "/PRNewswire" is written for
KkrContent ==
    "NEW YORK, Nov. 26, 2025 /PRNewswire/ -- KKR & Co. agreed to buy Widget Co. " \o
    "for $1.2 billion! John Smith, Partner at KKR, led the deal. Goldman Sachs advised."

Proposal(orgs, names, roles) ==
    [investor_or_pe     |-> orgs[1],
     buyer              |-> orgs[2],
     seller             |-> orgs[3],
     advisor_firm       |-> orgs[4],
     buyer_lead_name    |-> names[1],
     investor_lead_name |-> names[2],
     seller_lead_name   |-> names[3],
     buyer_lead_role    |-> roles[1],
     investor_lead_role |-> roles[2],
     seller_lead_role   |-> roles[3]]

OrgProposals ==
    {Absent, JStr("NA"), JStr("KKR & Blackstone"), JStr("Globex"), JStr(" goldman sachs ")}

NameProposals ==
    {JStr("Jane Doe"), JStr("John Smith"), JStr("Al Xu"), JStr(""), JOther(FALSE), JOther(TRUE)}

RoleProposals ==
    {JStr("CEO"), JStr("Founder & Partner"), JStr("Managing-Partner"), JStr("VP"), Absent}

DefaultOrgs == <<JStr("KKR"), JStr("NA"), JStr("Widget Co."), JStr("Goldman Sachs")>>

DefaultNames == <<JStr("NA"), JStr("John Smith"), JStr("NA")>>

DefaultRoles == <<JStr("NA"), JStr("Partner"), JStr("NA")>>

\* the proposal a well-behaved model makes for AcmeContent
AcmeProposal ==
    Proposal(<<JStr("NA"), JStr("Acme Corp"), JStr("Foo Inc"), JStr("NA")>>,
             <<JStr("Jane Doe"), JStr("NA"), JStr("NA")>>,
             <<JStr("CEO"), JStr("NA"), JStr("NA")>>)

MetaProposals ==
    {Proposal(o, DefaultNames, DefaultRoles) :
        o \in OrgProposals \X OrgProposals \X OrgProposals \X OrgProposals}
    \cup {Proposal(DefaultOrgs, n, DefaultRoles) :
            n \in NameProposals \X NameProposals \X NameProposals}
    \cup {Proposal(DefaultOrgs, DefaultNames, r) :
            r \in RoleProposals \X RoleProposals \X RoleProposals}

\* replies that carry no parsable object
BrokenReplies ==
    {FailedReply(k) : k \in FailureKinds}
    \cup {JsonReply(Absent), JsonReply(JOther(TRUE)), JsonReply(JOther(FALSE))}
    \cup {UnparsedReply(raw) :
            raw \in {"", "I cannot answer that.", "} nothing {", "{ \"buyer\": ",
                     "{ buyer: Acme }"}}

MetaReplies ==
    BrokenReplies \cup {ParsedReply("Here is the JSON:\n{ }", d) : d \in MetaProposals}

\* the request ai_summarise_with_ollama posts for article i: none when the
\* content is empty (lines 221 and 131-132), and none when get_pretty_date or
\* the slice of line 133 raised before
SummaryRequests(article, i) ==
    IF /\ ~PrettyDateRaises(article)
       /\ Truthy(ContentValue(article))
       /\ ~SummariseRaises(ContentValue(article))
    THEN <<[article |-> i, call |-> "summary"]>>
    ELSE <<>>

\* as MetadataRequests, without the guard on empty content
MetadataRequests_Unguarded(content, i) == <<[article |-> i, call |-> "metadata"]>>

\* the request ai_extract_deal_metadata posts for article i: none when the
\* content is empty (lines 280-293)
MetadataRequests(content, i) ==
    IF content = "" THEN <<>> ELSE <<[article |-> i, call |-> "metadata"]>>

\* <<content, reply>> pairs the function is applied to
MetaInputs ==
    ({KkrContent} \X MetaReplies)
    \cup ({AcmeContent} \X (BrokenReplies \cup {ParsedReply("{ }", AcmeProposal)}))
    \cup ({""} \X {FailedReply("transport"), ParsedReply("{ }", AcmeProposal)})

InitMeta ==
    /\ \E in \in MetaInputs :
          /\ source = <<Article("", in[1], "", <<>>)>>
          /\ metaReply = in[2]
    /\ articles = source
    /\ idx = 1
    /\ pc = "meta"
    /\ sumReply = NoReply
    /\ context = ""
    /\ enriched = <<>>
    /\ requests = <<>>
    /\ ret = ""
    /\ NoDelivery

ApplyMeta ==
    /\ pc = "meta"
    /\ IF MetadataRaises(ContentOf(articles[idx]), metaReply)
       THEN pc' = "raised" /\ ret' = ret
       ELSE pc' = "done" /\ ret' = ai_extract_deal_metadata(ContentOf(articles[idx]), metaReply)
    /\ requests' = requests \o MetadataRequests(ContentOf(articles[idx]), idx)
    /\ UNCHANGED <<source, articles, idx, sumReply, metaReply, context, enriched>>
    /\ UNCHANGED <<limit, emails, api_key, attempts, success_count, failed_count>>

NextMeta == ApplyMeta

SpecMeta == InitMeta /\ [][NextMeta]_vars

\* the nine party and executive fields of the returned dict
PartyKeys == {"investor_or_pe", "buyer", "seller"} \cup NameKeys \cup RoleKeys

\* A token of value v, split by the rule of field k and lower-cased, occurs
\* in text_l.
FieldTokenAttested(k, v, text_l) ==
    IF k \in OrgKeys
    THEN WordAttested(text_l, ReplaceAll(v, " and ", "&"), {"&", ",", "/"}, Whitespace, 1)
    ELSE IF k \in NameKeys
    THEN WordAttested(text_l, v, Whitespace, {}, 3)
    ELSE WordAttested(text_l, v, RoleSeparators, {}, 3)

\* C1: every org, name and role field ai_extract_deal_metadata returns is
\* "NA" or the cleaned proposed value unchanged, and a field that is not
\* "NA" has a token (by its kind's split rule, lower-cased) that occurs in
\* the whitespace-collapsed, lower-cased content.
C1_FieldsAttested ==
    (pc = "done") =>
        \A k \in PartyKeys :
            \/ ret[k] = "NA"
            \/ /\ ProposalOf(metaReply)[k].t = "str"
               /\ ret[k] = Strip(ProposalOf(metaReply)[k].s, Whitespace)
               /\ FieldTokenAttested(k, ret[k],
                                     ToLower(CollapseWhitespace(ContentOf(articles[idx]))))

\* One proposal with an org that has an attested part ("KKR") and is kept
\* unchanged, and an org the content does not name, downgraded to "NA".
C1_Witness ==
    /\ pc = "done"
    /\ ContentOf(articles[idx]) = KkrContent
    /\ ret.investor_or_pe = "KKR & Blackstone"
    /\ ret.seller = "NA"
    /\ metaReply.kind = "ok"
    /\ ProposalOf(metaReply).seller = JStr("Globex")

\* the metadata call failed in transport, or its response holds no {...}
\* span, or the span does not parse
ProposalFailed(reply) ==
    \/ reply.kind \in FailureKinds
    \/ /\ reply.kind = "ok"
       /\ \/ JsonSpan(ResponseText(reply)) = ""
          \/ ~reply.parsed.ok

\* C3: for non-empty content and a failed metadata call, deal_advisor and the
\* nine party fields are "NA" while deal_value is what
\* extract_deal_value_from_text gives for the content.
C3_FailedCallKeepsDealValue ==
    (pc = "done" /\ ContentOf(articles[idx]) # "" /\ ProposalFailed(metaReply)) =>
        /\ ret.deal_advisor = "NA"
        /\ \A k \in PartyKeys : ret[k] = "NA"
        /\ ret.deal_value = extract_deal_value_from_text(ContentOf(articles[idx]))
        /\ (ContentOf(articles[idx]) = AcmeContent => ret.deal_value = "USD 240 million")
        /\ (ContentOf(articles[idx]) = KkrContent => ret.deal_value = "USD 1.2 billion")

\* A response with a {...} span that is no JSON, on a content that states a
\* deal value.
C3_Witness ==
    /\ pc = "done"
    /\ ContentOf(articles[idx]) = AcmeContent
    /\ metaReply = UnparsedReply("{ buyer: Acme }")
    /\ ret.deal_value = "USD 240 million"
    /\ ret.buyer = "NA"

\* the validated advisor_firm, which the returned dict does not hold
ValidatedAdvisorFirm ==
    IF ContentOf(articles[idx]) = "" THEN "NA"
    ELSE validate_org(clean(ProposalOf(metaReply).advisor_firm),
                      ToLower(CollapseWhitespace(ContentOf(articles[idx]))))

\* C7: deal_advisor is the first of the validated investor_or_pe,
\* advisor_firm, buyer, seller that is not "NA", and "NA" exactly when all
\* four are "NA".
C7_AdvisorPriority ==
    (pc = "done") =>
        /\ ret.deal_advisor =
              (IF ret.investor_or_pe # "NA" THEN ret.investor_or_pe
               ELSE IF ValidatedAdvisorFirm # "NA" THEN ValidatedAdvisorFirm
               ELSE IF ret.buyer # "NA" THEN ret.buyer
               ELSE IF ret.seller # "NA" THEN ret.seller
               ELSE "NA")
        /\ (ret.deal_advisor = "NA") <=>
              (/\ ret.investor_or_pe = "NA"
               /\ ValidatedAdvisorFirm = "NA"
               /\ ret.buyer = "NA"
               /\ ret.seller = "NA")

\* The investor was proposed but not attested, advisor and buyer were
\* attested: the advisor won over the buyer.
C7_Witness ==
    /\ pc = "done"
    /\ ContentOf(articles[idx]) = KkrContent
    /\ ProposalOf(metaReply).investor_or_pe = JStr("Globex")
    /\ ret.investor_or_pe = "NA"
    /\ ProposalOf(metaReply).advisor_firm = JStr(" goldman sachs ")
    /\ ValidatedAdvisorFirm = "goldman sachs"
    /\ ret.buyer = "KKR & Blackstone"
    /\ ret.deal_advisor = "goldman sachs"

(***************************************************************************)
(* Specification Spec: main() enriching a batch of articles                *)
(***************************************************************************)

TEST_MODE == TRUE

TEST_COUNT == 20

MaxBatch == 2

\* articles[:n]
Take(s, n) == SubSeq(s, 1, Min({n, Len(s)}))

\* a scraped feed; the last three articles have no "content" key, neither a
\* "title" nor a "url" key, and a title that is null
Feed ==
    <<Article("Acme Acquires Foo", AcmeContent, "https://news.test/acme", <<>>),
      Article("KKR to Buy Widget", KkrContent, "https://news.test/kkr?a=1&b=2",
              <<"Nov. 26, 2025">>),
      Article("Empty Note", "", "https://news.test/empty", <<"Dec 1, 2025">>),
      Without(Article("No Body", "", "", <<>>), "content"),
      Without(Without(Article("", "", "", <<"Nov. 26, 2025">>), "title"), "url"),
      With(Article("", "x", "https://news.test/x", <<>>), "title", JNull)>>

\* a feed whose articles hold values of other types than the scraper writes:
\* a title that is a list, null, or an empty list; a content that is a list
\* or a number; a timestamp whose first element is a number; a url that is
\* null or a number
OddFeed ==
    <<With(Article("", "Widget Co. is sold. Two.", "https://news.test/w", <<>>),
           "title", JList(<<JStr("Widget")>>)),
      With(Article("", "", "https://news.test/n", <<>>), "title", JNull),
      With(Article("", "", "https://news.test/e", <<>>), "title", JList(<<>>)),
      With(Article("Widget Deal", "", "https://news.test/l", <<"Nov. 26, 2025">>),
           "content", JList(<<JStr("Widget Co.")>>)),
      With(Article("Widget Deal", "", "https://news.test/l", <<>>),
           "content", JList(<<JStr("Widget Co.")>>)),
      With(Article("Widget Deal", "", "https://news.test/c", <<"Nov. 26, 2025">>),
           "content", JOther(TRUE)),
      With(Article("Late Note", "", "https://news.test/t", <<>>),
           "timestamp", JList(<<JOther(TRUE)>>)),
      With(Article("Link Note", "", "", <<>>), "url", JNull),
      Article("Empty Link", "Widget Co. is sold.", "", <<>>),
      With(Article("Count Note", "", "", <<>>), "url", JOther(TRUE))>>

\* a feed of one article more than TEST_COUNT, none of them with a body
LongFeed ==
    [i \in 1..(TEST_COUNT + 1) |->
        Without(Article("Note " \o ToString(i), "", "", <<>>), "content")]

\* the contiguous runs of at most MaxBatch articles of a feed
Runs(feed) ==
    {SubSeq(feed, a, Min({a + n - 1, Len(feed)})) : a \in 1..Len(feed), n \in 0..MaxBatch}

\* the files load_articles may find: the runs of Feed and of OddFeed, and
\* LongFeed
Batches == Runs(Feed) \cup Runs(OddFeed) \cup {LongFeed}

\* outcomes of the summary call
SumReplies ==
    {FailedReply("timeout"), FailedReply("http"), TextReply(""),
     JsonReply(JOther(TRUE)),
     TextReply("Acme Corp bought Foo Inc."),
     TextReply(" Widget Co. is bought by KKR. ")}

\* outcomes of the metadata call; the last is a well-formed object whose
\* "buyer" is a number
MetaOutcomes ==
    {FailedReply("transport"), FailedReply("badbody"),
     UnparsedReply("{ buyer: Acme }"),
     ParsedReply("{ }", AcmeProposal),
     ParsedReply("{ }", Proposal(DefaultOrgs, DefaultNames, DefaultRoles)),
     ParsedReply("{ }", [AcmeProposal EXCEPT !.buyer = JOther(TRUE)])}

\* {**article, "context": context, **meta}
EnrichedRecord(article, context_text, meta) ==
    meta @@ [context |-> context_text] @@ article

Init ==
    /\ source \in Batches
    /\ articles = <<>>
    /\ idx = 0
    /\ pc = "load"
    /\ sumReply = NoReply
    /\ metaReply = NoReply
    /\ context = [text |-> "", from |-> "none"]
    /\ enriched = <<>>
    /\ requests = <<>>
    /\ ret = ""
    /\ NoDelivery

\* lines 647-656
LoadArticles ==
    /\ pc = "load"
    /\ articles' = (IF TEST_MODE THEN Take(source, TEST_COUNT) ELSE source)
    /\ idx' = 1
    /\ pc' = (IF Len(articles') = 0 THEN "render" ELSE "context")
    /\ UNCHANGED <<source, sumReply, metaReply, context, enriched, requests, ret>>
    /\ UNCHANGED <<limit, emails, api_key, attempts, success_count, failed_count>>

\* line 659: article.get('title','Untitled')[:70] raises on a title that is
\* neither a string nor a list
LoggedTitleRaises(article) == Get(article, "title", JStr("Untitled")).t \notin {"str", "list"}

\* lines 658-663: the progress line, then context = get_context_text(article);
\* the service answers only when it is asked; an exception leaves main
GetContext ==
    /\ pc = "context"
    /\ IF LoggedTitleRaises(articles[idx])
       THEN /\ pc' = "raised"
            /\ UNCHANGED <<sumReply, context, requests>>
       ELSE /\ \E reply \in SumReplies :
                  /\ sumReply' = (IF SummaryRequests(articles[idx], idx) = <<>>
                                  THEN NoReply ELSE reply)
                  /\ IF ContextRaises(articles[idx], reply)
                     THEN pc' = "raised" /\ context' = context
                     ELSE pc' = "metadata" /\ context' = get_context_text(articles[idx], reply)
            /\ requests' = requests \o SummaryRequests(articles[idx], idx)
    /\ UNCHANGED <<source, articles, idx, metaReply, enriched, ret>>
    /\ UNCHANGED <<limit, emails, api_key, attempts, success_count, failed_count>>

\* lines 667-674: meta = ai_extract_deal_metadata(...), then the append; an
\* exception leaves main.  On a content that is no string the function raises
\* at content.split() (line 245) before it posts its request.
ExtractMetadata ==
    /\ pc = "metadata"
    /\ IF ~HasText(articles[idx])
       THEN /\ pc' = "raised"
            /\ UNCHANGED <<idx, enriched, metaReply, requests>>
       ELSE /\ \E reply \in MetaOutcomes :
                  /\ metaReply' = (IF ContentOf(articles[idx]) = "" THEN NoReply ELSE reply)
                  /\ IF MetadataRaises(ContentOf(articles[idx]), reply)
                     THEN /\ pc' = "raised"
                          /\ UNCHANGED <<idx, enriched>>
                     ELSE /\ enriched' =
                                Append(enriched,
                                       EnrichedRecord(articles[idx], context.text,
                                           ai_extract_deal_metadata(ContentOf(articles[idx]), reply)))
                          /\ idx' = idx + 1
                          /\ pc' = (IF idx = Len(articles) THEN "render" ELSE "context")
            /\ requests' = requests \o MetadataRequests(ContentOf(articles[idx]), idx)
    /\ UNCHANGED <<source, articles, sumReply, context, ret>>
    /\ UNCHANGED <<limit, emails, api_key, attempts, success_count, failed_count>>

\* html.escape
escape(s) ==
    ReplaceAll(ReplaceAll(ReplaceAll(ReplaceAll(ReplaceAll(s,
        "&", "&amp;"), "<", "&lt;"), ">", "&gt;"), "\"", "&quot;"), "'", "&#x27;")

\* build_deal_block raises: in get_pretty_date (line 448), and in
\* escape(title) and escape(url) (lines 450 and 452) on a value that is no
\* string
BlockRaises(article) ==
    \/ PrettyDateRaises(article)
    \/ Get(article, "title", JStr("Untitled deal")).t # "str"
    \/ Get(article, "url", JStr("#")).t # "str"

\* the texts build_deal_block puts into the link, the title, the meta row and
\* the body
build_deal_block(article) ==
    [url          |-> escape(Get(article, "url", JStr("#")).s),
     title        |-> escape(Get(article, "title", JStr("Untitled deal")).s),
     date         |-> escape(get_pretty_date(article)),
     deal_advisor |-> escape(Get(article, "deal_advisor", "NA")),
     deal_value   |-> escape(Get(article, "deal_value", "NA")),
     body         |-> escape(Get(article, "context", ""))]

\* lines 544-545, for a url that is a string: main writes the contexts after
\* rendering (line 680), which raises on every other truthy url
build_context_entry(article) ==
    Get(article, "url", JStr("")).s \o "\n\n" \o Get(article, "context", "") \o "\n\n"

\* lines 548-549: the entries of the articles with a truthy url
RECURSIVE build_contexts_text(_)
build_contexts_text(records) ==
    IF records = <<>> THEN ""
    ELSE (IF Truthy(Get(Head(records), "url", JNull))
          THEN build_context_entry(Head(records)) ELSE "")
         \o build_contexts_text(Tail(records))

\* lines 676-682: the enriched list is handed to rendering, then to the
\* plain contexts file; an exception of build_deal_block leaves main
Render ==
    /\ pc = "render"
    /\ IF \E i \in 1..Len(enriched) : BlockRaises(enriched[i])
       THEN pc' = "raised" /\ ret' = ret
       ELSE /\ ret' = [blocks   |-> [i \in 1..Len(enriched) |-> build_deal_block(enriched[i])],
                      contexts |-> build_contexts_text(enriched)]
            /\ pc' = "done"
    /\ UNCHANGED <<source, articles, idx, sumReply, metaReply, context, enriched, requests>>
    /\ UNCHANGED <<limit, emails, api_key, attempts, success_count, failed_count>>

Next == LoadArticles \/ GetContext \/ ExtractMetadata \/ Render

Spec == Init /\ [][Next]_vars

\* C2: no outcome of the two text-generation calls raises out of enrichment
\* or aborts the batch: main leaves the loop by an exception only on an
\* article that holds a value of another type than an Article has, and it
\* leaves rendering by one only when the batch holds such an article.
C2_EnrichmentNeverRaises ==
    (pc = "raised") =>
        IF idx <= Len(articles)
        THEN ~IsArticle(articles[idx])
        ELSE \E i \in 1..Len(articles) : ~IsArticle(articles[i])

\* the text the summary call produced, "" when it produced none
GenerativeText ==
    IF sumReply.kind = "ok" /\ sumReply.response.t = "str"
    THEN Strip(sumReply.response.s, Whitespace)
    ELSE ""

\* C5: for an article whose content is text, get_context_text returns the
\* generative summary if and only if the content is non-empty, the generative
\* call returned a non-empty string and summary_matches_title(summary, title)
\* holds; otherwise it returns simple_summary of the content.  On an Article
\* it returns for every outcome of the call.
C5_GenerativeIffMatches ==
    /\ \A i \in 1..Len(articles) :
          IsArticle(articles[i]) => \A reply \in SumReplies : ~ContextRaises(articles[i], reply)
    /\ (pc = "metadata" /\ HasText(articles[idx])) =>
        /\ (context.from = "ai") <=>
              (/\ ContentOf(articles[idx]) # ""
               /\ GenerativeText # ""
               /\ summary_matches_title(GenerativeText, TitleOf(articles[idx])))
        /\ context.from = "ai" => context.text = GenerativeText
        /\ context.from # "ai" =>
              /\ context.from = "fallback"
              /\ context.text = simple_summary(ContentOf(articles[idx]), DefaultMaxChars)

\* A generative summary that names no word of the title was discarded for
\* the fallback.
C5_Witness ==
    /\ pc = "metadata"
    /\ IsArticle(articles[idx])
    /\ TitleOf(articles[idx]) = "KKR to Buy Widget"
    /\ sumReply = TextReply("Acme Corp bought Foo Inc.")
    /\ context.from = "fallback"
    /\ context.text = "KKR & Co. agreed to buy Widget Co."

\* C9: with the generative call unavailable the context is the first two
\* sentences after the boilerplate prefix is stripped; for the Acme content
\* and title "Acme Acquires Foo" the context is "Acme Corp acquired Foo Inc
\* for USD 240 million. Jane Doe, CEO of Acme, said the deal expands reach."
\* and deal_value is "USD 240 million".
C9_AcmeContextStripped ==
    /\ (/\ pc = "metadata"
        /\ sumReply.kind \in FailureKinds
        /\ articles[idx] = Article("Acme Acquires Foo", AcmeContent, "https://news.test/acme", <<>>)) =>
           context.text =
               "Acme Corp acquired Foo Inc for USD 240 million. " \o
               "Jane Doe, CEO of Acme, said the deal expands reach."
    /\ \A i \in 1..Len(enriched) :
           (HasText(articles[i]) /\ ContentOf(articles[i]) = AcmeContent) =>
               enriched[i].deal_value = "USD 240 million"

\* the eleven fields of the metadata block
MetadataFields == {"deal_value", "deal_advisor"} \cup PartyKeys

\* the article's content is empty or missing (or null, or another falsy
\* value) and its timestamp is one extract_date_from_timestamp_list reads: a
\* list of strings, a string, missing, null or another falsy value
EmptyContent(article) ==
    /\ HasText(article)
    /\ ContentOf(article) = ""
    /\ ~TimestampRaises(Get(article, "timestamp", JList(<<>>)))

\* C10: for an article whose content is empty or missing no text-generation
\* request is issued and no extractor raises, whatever its title and url are:
\* extract_date_from_content and get_context_text give "",
\* extract_deal_value_from_text gives "NA" and ai_extract_deal_metadata gives
\* "NA" in all eleven fields, for every outcome the calls could have had.
\* main leaves the loop on such an article only at its progress line, before
\* the extractors run.
C10_EmptyContentShortCircuits ==
    \A i \in 1..Len(articles) :
        EmptyContent(articles[i]) =>
            /\ \A r \in 1..Len(requests) : requests[r].article # i
            /\ (pc = "raised" /\ idx = i) => LoggedTitleRaises(articles[i])
            /\ \A reply \in SumReplies :
                  /\ ~ContextRaises(articles[i], reply)
                  /\ get_context_text(articles[i], reply).text = ""
                  /\ SummaryRequests(articles[i], i) = <<>>
            /\ \A reply \in MetaOutcomes :
                  /\ ~MetadataRaises(ContentOf(articles[i]), reply)
                  /\ \A k \in MetadataFields :
                        ai_extract_deal_metadata(ContentOf(articles[i]), reply)[k] = "NA"
            /\ (pc = "metadata" /\ idx = i) => context.text = ""
            /\ i <= Len(enriched) =>
                  /\ enriched[i].context = ""
                  /\ \A k \in MetadataFields : enriched[i][k] = "NA"
            /\ extract_date_from_content(ContentOf(articles[i])) = ""
            /\ extract_deal_value_from_text(ContentOf(articles[i])) = "NA"

\* A batch of an article with content and one with none:
\* requests went out for the first only, the second was enriched to
\* sentinels.
C10_Witness ==
    /\ pc = "done"
    /\ Len(enriched) = 2
    /\ ContentOf(articles[1]) # ""
    /\ EmptyContent(articles[2])
    /\ Len(requests) = 2
    /\ enriched[2].context = ""
    /\ enriched[2].deal_value = "NA"
    /\ ret.blocks[2].body = ""

\* C12: main produces exactly one enriched record per article of the batch
\* source, in input order; a record is appended only with its context and its
\* full 11-field metadata block; rendering starts only after the last article
\* has been enriched.
C12_OneRecordPerSourceArticle ==
    /\ \A i \in 1..Len(enriched) :
          /\ i <= Len(source)
          /\ Get(enriched[i], "title", Absent) = Get(source[i], "title", Absent)
          /\ (MetadataFields \cup {"context"}) \subseteq DOMAIN enriched[i]
    /\ (pc \in {"render", "done"}) =>
          /\ Len(enriched) = Len(articles)
          /\ Len(enriched) = Len(source)
    /\ (pc = "done") => Len(ret.blocks) = Len(source)

(***************************************************************************)
(* Specification SpecSummary: simple_summary on bounded inputs             *)
(***************************************************************************)

MaxSummaryLen == 5

MaxLimit == 4

SummaryAlphabet == {"a", "b", " ", "."}

SummaryContents == StringsUpTo(SummaryAlphabet, MaxSummaryLen)

InitSummary ==
    /\ source \in {<<Article("", c, "", <<>>)>> : c \in SummaryContents}
    /\ articles = source
    /\ idx = 1
    /\ pc = "summary"
    /\ sumReply = NoReply
    /\ metaReply = NoReply
    /\ context = ""
    /\ enriched = <<>>
    /\ requests = <<>>
    /\ ret = ""
    /\ limit \in 0..MaxLimit
    /\ emails = <<>>
    /\ api_key = ""
    /\ attempts = <<>>
    /\ success_count = 0
    /\ failed_count = 0

ApplySummary ==
    /\ pc = "summary"
    /\ ret' = simple_summary(ContentOf(articles[idx]), limit)
    /\ pc' = "done"
    /\ UNCHANGED <<source, articles, idx, sumReply, metaReply, context, enriched, requests>>
    /\ UNCHANGED <<limit, emails, api_key, attempts, success_count, failed_count>>

NextSummary == ApplySummary

SpecSummary == InitSummary /\ [][NextSummary]_vars

\* the two-sentence summary simple_summary builds before it looks at max_chars
TwoSentenceSummary(content) ==
    IF strip_prnewswire_boilerplate(content) = "" THEN ""
    ELSE Strip(JoinFirstTwo(strip_prnewswire_boilerplate(content),
                            SentenceBreaks(strip_prnewswire_boilerplate(content))),
               Whitespace)

\* the first n characters of summary, cut back to before the last whitespace
\* among them
CutBackToWhitespace(summary, n) ==
    IF \E j \in 1..n : Char(summary, j) \in Whitespace
    THEN SubSeq(summary, 1, Max({j \in 1..n : Char(summary, j) \in Whitespace}) - 1)
    ELSE SubSeq(summary, 1, n)

\* kept is a prefix of summary that does not stop inside a word
EndsAtWordEnd(summary, kept) ==
    \/ kept = ""
    \/ Len(kept) = Len(summary)
    \/ Char(summary, Len(kept) + 1) \in Whitespace

\* C11: when the two-sentence summary is longer than max_chars the result is
\* the summary truncated to max_chars, cut back to the last whitespace before
\* the cut so that it never ends in the middle of a word, followed by "...",
\* and is at most max_chars + 3 long; a summary that is not longer is
\* returned unchanged, without ellipsis.
C11_TruncationAtWordBoundary ==
    (pc = "done") =>
        IF Len(TwoSentenceSummary(ContentOf(articles[idx]))) > limit
        THEN /\ ret = CutBackToWhitespace(TwoSentenceSummary(ContentOf(articles[idx])), limit)
                      \o "..."
             /\ EndsAtWordEnd(TwoSentenceSummary(ContentOf(articles[idx])),
                              SubSeq(ret, 1, Len(ret) - 3))
             /\ Len(ret) <= limit + 3
        ELSE ret = TwoSentenceSummary(ContentOf(articles[idx]))

(***************************************************************************)
(* Specification SpecSend: send_newsletters_to_all                         *)
(***************************************************************************)

MaxRecipients == 3

Addresses == {"a@x.com", "b@y.org"}

\* Sequences over S of length at most n.
SeqsUpTo(S, n) == UNION {[1..k -> S] : k \in 0..n}

\* What resend_client.emails.send does for one recipient: it raises, or it
\* returns a dict (with a truthy "id"; without "id" and without "data";
\* without "id" and with a dict as "data"; without "id" and with "data"
\* that is no dict, e.g. null), or it returns an object that is no dict.
SendOutcomes ==
    {"raises", "dict_id", "dict_plain", "dict_data", "dict_data_null", "object"}

\* lines 583-603: True unless something raises inside the try, which
\* response.get("data", {}).get(...) does on a "data" that is no dict
send_newsletter_email(outcome) ==
    outcome \notin {"raises", "dict_data_null"}

InitSend ==
    /\ source = <<>>
    /\ articles = <<>>
    /\ idx = 0
    /\ pc = "send"
    /\ sumReply = NoReply
    /\ metaReply = NoReply
    /\ context = ""
    /\ enriched = <<>>
    /\ requests = <<>>
    /\ ret = ""
    /\ limit = DefaultMaxChars
    /\ emails \in SeqsUpTo(Addresses, MaxRecipients)
    /\ api_key \in {"", "re_123"}
    /\ attempts = <<>>
    /\ success_count = 0
    /\ failed_count = 0

\* lines 611-622: without an API key the function returns at once
SendStart ==
    /\ pc = "send"
    /\ IF api_key = ""
       THEN /\ ret' = [success |-> 0, failed |-> 0, total |-> Len(emails)]
            /\ pc' = "done"
            /\ idx' = idx
       ELSE /\ ret' = ret
            /\ pc' = "sending"
            /\ idx' = 1
    /\ success_count' = 0
    /\ failed_count' = 0
    /\ UNCHANGED <<source, articles, sumReply, metaReply, context, enriched, requests>>
    /\ UNCHANGED <<limit, emails, api_key, attempts>>

\* lines 624-631: one turn of the loop
SendOne ==
    /\ pc = "sending"
    /\ idx <= Len(emails)
    /\ \E outcome \in SendOutcomes :
          /\ attempts' = Append(attempts,
                                [to |-> emails[idx], outcome |-> outcome,
                                 ok |-> send_newsletter_email(outcome)])
          /\ IF send_newsletter_email(outcome)
             THEN success_count' = success_count + 1 /\ failed_count' = failed_count
             ELSE failed_count' = failed_count + 1 /\ success_count' = success_count
    /\ idx' = idx + 1
    /\ UNCHANGED <<source, articles, pc, sumReply, metaReply, context, enriched, requests, ret>>
    /\ UNCHANGED <<limit, emails, api_key>>

\* lines 633-642: the statistics are returned
SendFinish ==
    /\ pc = "sending"
    /\ idx > Len(emails)
    /\ ret' = [success |-> success_count, failed |-> failed_count, total |-> Len(emails)]
    /\ pc' = "done"
    /\ UNCHANGED <<source, articles, idx, sumReply, metaReply, context, enriched, requests>>
    /\ UNCHANGED <<limit, emails, api_key, attempts, success_count, failed_count>>

NextSend == SendStart \/ SendOne \/ SendFinish

SpecSend == InitSend /\ [][NextSend]_vars

\* C13: send_newsletters_to_all attempts every recipient exactly once in list
\* order, whatever sends fail, and returns success = the number of successful
\* sends, failed = the number of failed sends, and
\* success + failed = total = the number of recipients.
C13_EveryRecipientCounted ==
    (pc = "done") =>
        /\ Len(attempts) = Len(emails)
        /\ \A i \in 1..Len(attempts) : attempts[i].to = emails[i]
        /\ ret.success = Cardinality({i \in 1..Len(attempts) : attempts[i].ok})
        /\ ret.failed = Cardinality({i \in 1..Len(attempts) : ~attempts[i].ok})
        /\ ret.success + ret.failed = ret.total
        /\ ret.total = Len(emails)

====
